---- MODULE Spec2Model ----
(***************************************************************************)
(* Filesystem device resolution and statistics of the monit sysdep layer.  *)
(* One poll cycle of one monitored filesystem is one action.  C strings    *)
(* are tuples of one-character strings; the kernel's answers (mount table  *)
(* readability, poll result, realpath, statvfs, statistics files) are      *)
(* inputs of the cycle drawn from small sets.                              *)
(***************************************************************************)
EXTENDS Integers, Sequences, FiniteSets, TLC

VARIABLES
    platform,    \* which sysdep implementation is compiled in
    run,         \* Run.flags: [daemon, once]
    target,      \* per filesystem: the public function and path it is polled with
    mounts,      \* the kernel mount table, a sequence of mntent entries
    statistics,  \* sysdep_LINUX.c static _statistics: [fd, generation]
    notify,      \* kernel side: unread mount-change event on the open descriptor
    info,        \* Info_T of every monitored filesystem
    resolved,    \* per filesystem: how its last resolution attempt ended
    cycle,       \* what the last poll cycle did and returned
    answer,      \* what the kernel or the peer answered to the last call made on its own
    probe,       \* protocol check: the bytes written to the socket and what was thrown
    process      \* what the process holds open, and whether it has exited

vars == <<platform, run, target, mounts, statistics, notify, info, resolved, cycle,
          answer, probe, process>>

(* ------------------------------------------------------------ strings *)

S_slash_m   == <<"/", "m">>
S_slash     == <<"/">>
S_rootfs    == <<"r", "o", "o", "t", "f", "s">>
S_tmpfs     == <<"t", "m", "p", "f", "s">>
S_ext4      == <<"e", "x", "t", "4">>
S_nfs       == <<"n", "f", "s">>
S_nfs4      == <<"n", "f", "s", "4">>
S_smbfs     == <<"s", "m", "b", "f", "s">>
S_cifs      == <<"c", "i", "f", "s">>
S_dev_sda1  == <<"/", "d", "e", "v", "/", "s", "d", "a", "1">>
S_dev_vg    == <<"/", "d", "e", "v", "/", "v", "g">>
S_dev_dm0   == <<"/", "d", "e", "v", "/", "d", "m", "0">>
S_nfsdev    == <<"h", ":", "/", "x">>
S_cifsdev   == <<"/", "/", "h", "/", "s">>
S_dev_sd0a  == <<"/", "d", "e", "v", "/", "s", "d", "0", "a">>
S_devices   == <<"/", "d", "e", "v", "i", "c", "e", "s", "/">>
S_devices_sd == <<"/", "d", "e", "v", "i", "c", "e", "s", "/", "s", "d", "@", "0", ":", "a">>
S_ffs       == <<"f", "f", "s">>
S_hfs       == <<"h", "f", "s">>
S_zfs       == <<"z", "f", "s">>
S_sd0       == <<"s", "d", "0">>
S_sd        == <<"s", "d">>
S_empty     == <<>>

\* Str_isEqual as used through the IS macro
IS(a, b) == a = b

\* Str_startsWith(a, b): a starts with b
Str_startsWith(a, b) ==
    /\ Len(b) <= Len(a)
    /\ SubSeq(a, 1, Len(b)) = b

\* Str_replaceChar(s, o, n)
Str_replaceChar(s, o, n) == [i \in 1..Len(s) |-> IF s[i] = o THEN n ELSE s[i]]

\* index of the last '/' of a path, 0 when it has none
LastSlash(p) ==
    LET idx == {i \in 1..Len(p) : p[i] = "/"}
    IN IF idx = {} THEN 0 ELSE CHOOSE i \in idx : \A j \in idx : j <= i

\* File_basename(path)
File_basename(p) == SubSeq(p, LastSlash(p) + 1, Len(p))

(* --------------------------------------------------- external counters *)

\* the "no data" state Statistics_reset leaves a counter in
NoData == -1

Statistics_reset(counter) == NoData

Statistics_update(counter, now, value) == value

(* ------------------------------------------------------------ the kernel *)

ENOENT  == "ENOENT"
ENOTDIR == "ENOTDIR"
EACCES  == "EACCES"

Mntent(fsname, dir, type) == [mnt_fsname |-> fsname, mnt_dir |-> dir, mnt_type |-> type]

\* entries always present
BaseMounts == << Mntent(S_rootfs, S_slash, S_rootfs), Mntent(S_dev_sda1, S_slash, S_ext4) >>

\* entries that come and go
Mountable == { Mntent(S_nfsdev, S_slash_m, S_nfs4),
               Mntent(S_cifsdev, S_slash_m, S_cifs),
               Mntent(S_tmpfs, S_slash_m, S_tmpfs),
               Mntent(S_dev_vg, S_slash_m, S_ext4) }

DevicePaths == {S_rootfs, S_dev_sda1, S_nfsdev, S_cifsdev, S_tmpfs, S_dev_vg, S_dev_dm0,
                S_dev_sd0a}

RpOk(p)   == [ok |-> TRUE, path |-> p, errno |-> "0"]
RpFail(e, p) == [ok |-> FALSE, path |-> p, errno |-> e]

\* realpath(3) of the device paths: the device nodes resolve, /dev/vg is a
\* symlink to /dev/dm0, everything else does not exist
LayoutNormal == [p \in DevicePaths |->
    IF p \in {S_dev_sda1, S_dev_dm0, S_dev_sd0a} THEN RpOk(p)
    ELSE IF p = S_dev_vg THEN RpOk(S_dev_dm0)
    ELSE RpFail(ENOENT, p)]

\* the device directory and the working directory, where the relative name
\* of a remote export is looked up, cannot be searched, and a component of the
\* pseudo device name tmpfs is a regular file
LayoutBroken == [p \in DevicePaths |->
    IF p \in {S_dev_sda1, S_dev_dm0, S_dev_vg, S_dev_sd0a, S_nfsdev} THEN RpFail(EACCES, p)
    ELSE IF p = S_tmpfs THEN RpFail(ENOTDIR, p)
    ELSE RpFail(ENOENT, p)]

\* the disk slice is a link into the /devices tree
LayoutDevices == [p \in DevicePaths |->
    IF p = S_dev_sd0a THEN RpOk(S_devices_sd) ELSE LayoutNormal[p]]

Layouts == {LayoutNormal, LayoutBroken}

realpath(layout, p) == layout[p]

(* ------------------------------------------------------- the Info record *)

Counters == [bytes |-> NoData, operations |-> NoData, time |-> NoData]

\* a zero-initialised Info_T (filesystem part)
InfoZero ==
    [ object |-> [ device |-> S_empty, mountpoint |-> S_empty, type |-> S_empty,
                   key |-> S_empty, generation |-> 0, mounted |-> FALSE,
                   getDiskUsage |-> "NULL", getDiskActivity |-> "NULL" ],
      type |-> S_empty,
      f_bsize |-> 0, f_blocks |-> 0, f_blocksfree |-> 0, f_blocksfreetotal |-> 0,
      f_files |-> 0, f_filesfree |-> 0, flags |-> 0, _flags |-> 0,
      read |-> Counters, write |-> Counters,
      runTime |-> NoData, waitTime |-> NoData, hasIOStatistics |-> FALSE ]

(* ------------------------------------------------------ kernel answers *)

\* struct statvfs / struct statfs as filled by the kernel
Statvfs(bsize, frsize, blocks, bavail, bfree, files, ffree, flag) ==
    [ ok |-> TRUE, f_bsize |-> bsize, f_frsize |-> frsize, f_blocks |-> blocks,
      f_bavail |-> bavail, f_bfree |-> bfree, f_files |-> files, f_ffree |-> ffree,
      f_flag |-> flag ]

StatvfsFails == [ ok |-> FALSE ]

\* what a build does with a division by zero: the process is killed by the
\* trap, or the division leaves some number
Undefined(trap, quotient) == [trap |-> trap, quotient |-> quotient]

\* a statvfs result together with the behaviour of the build
StatvfsOn(usage, ub) == [ub |-> ub] @@ usage

\* the number of fragments in a block, the divisor of the three block counts in
\* the collectors that scale: int size = f_frsize ? (f_bsize / f_frsize) : 1
SizeFactor(usage) == IF usage.f_frsize # 0 THEN usage.f_bsize \div usage.f_frsize ELSE 1

\* n / size of C
Quotient(n, size, usage) == IF size # 0 THEN n \div size ELSE usage.ub.quotient

\* mount flag bits: ST_RDONLY
ST_RDONLY == 1

StatvfsRw == Statvfs(4096, 1024, 80, 40, 44, 10, 5, 0)
StatvfsRo == Statvfs(4096, 1024, 80, 40, 44, 10, 5, ST_RDONLY)

\* what fopen finds: no file, or a file with its content
NoFile == [exists |-> FALSE]

File(content) == [exists |-> TRUE, content |-> content]

\* /sys/class/block/<key>/stat: the whitespace separated numbers of the file
BlockStatGood  == <<3, 0, 2, 7, 4, 0, 6, 9, 0, 0, 0>>
BlockStatShort == <<3, 0, 2>>

\* /proc/self/mountstats, one record per line
NfsDeviceLine(name) == [kind |-> "device", name |-> name]
NfsOpLine(name, nums) == [kind |-> "op", name |-> name, nums |-> nums]
NfsTextLine == [kind |-> "text"]

NfsStatGood == << NfsDeviceLine(S_nfsdev), NfsTextLine,
                  NfsOpLine("READ", <<100, 0, 0, 2048, 4096, 0, 0, 5000>>),
                  NfsOpLine("WRITE", <<7, 0, 0, 1024, 512, 0, 0, 3000>>) >>

\* /proc/fs/cifs/Stats, one record per line
CifsShareLine(index, name) == [kind |-> "share", index |-> index, name |-> name]
CifsStatLine(l1, n1, l2, n2) == [kind |-> "stat", label1 |-> l1, n1 |-> n1, label2 |-> l2, n2 |-> n2]
CifsTextLine == [kind |-> "text"]

S_cifskey == <<"\\", "\\", "h", "\\", "s">>

CifsStatGood == << CifsTextLine, CifsShareLine(1, S_cifskey),
                   CifsStatLine("Reads", 5, "Bytes", 50),
                   CifsStatLine("Writes", 6, "Bytes", 60) >>

\* one disk of the BSD kernels' disk statistics tables
DiskSd0 ==
    [ name |-> S_sd0, device_name |-> S_sd, unit_number |-> 0,
      rbytes |-> 11, wbytes |-> 12, rxfer |-> 3, wxfer |-> 4,
      rtime |-> [sec |-> 1, msec |-> 250], wtime |-> [sec |-> 2, msec |-> 500],
      time |-> [sec |-> 3, usec |-> 750000] ]

\* the IOBlockStorageDriver statistics dictionary, times in nanoseconds
IoKitGood ==
    [ bytesRead |-> 21, reads |-> 2, totalReadTime |-> 3145728,
      bytesWritten |-> 22, writes |-> 4, totalWriteTime |-> 5242880 ]

\* one KSTAT_TYPE_IO entry of the kstat chain, times in nanoseconds
KstatSd ==
    [ ks_type |-> "KSTAT_TYPE_IO", ks_instance |-> 0, ks_module |-> S_sd,
      ks_name |-> <<"s", "d", "0", ",", "a">>, readable |-> TRUE,
      nread |-> 31, nwritten |-> 32, reads |-> 5, writes |-> 6,
      wtime |-> 7000000, rtime |-> 9000000 ]

\* vdev_stat_t of a pool's top-level vdev tree
ZpoolGood == [ bytesRead |-> 41, bytesWritten |-> 42, opsRead |-> 7, opsWritten |-> 8 ]

\* the statistics sources as one poll cycle finds them
StatGood ==
    [ block |-> File(BlockStatGood), nfs |-> File(NfsStatGood), cifs |-> File(CifsStatGood),
      devstat |-> File(<<DiskSd0>>), iokit |-> File(IoKitGood), kstat |-> File(<<KstatSd>>),
      zpool |-> File(ZpoolGood) ]

StatShort == [StatGood EXCEPT !.block = File(BlockStatShort)]

StatMissing ==
    [ block |-> NoFile, nfs |-> NoFile, cifs |-> NoFile, devstat |-> NoFile, iokit |-> NoFile,
      kstat |-> NoFile, zpool |-> NoFile ]

(* ------------------------------------------------ sysdep_LINUX.c: usage *)

\* result of a collector: the record, the return value, the statistics source opened
Collected(inf, rv, source) == [inf |-> inf, rv |-> rv, source |-> source]

Linux_getDiskUsage(inf, usage) ==
    IF ~usage.ok
    THEN Collected(inf, FALSE, "none")
    ELSE Collected([inf EXCEPT !.f_bsize = usage.f_frsize,
                               !.f_blocks = usage.f_blocks,
                               !.f_blocksfree = usage.f_bavail,
                               !.f_blocksfreetotal = usage.f_bfree,
                               !.f_files = usage.f_files,
                               !.f_filesfree = usage.f_ffree,
                               !._flags = inf.flags,
                               !.flags = usage.f_flag],
                   TRUE, "none")

(* --------------------------------------------- sysdep_LINUX.c: activity *)

Linux_getDummyDiskActivity(inf, stat) == Collected(inf, TRUE, "none")

\* time / 1000. is a double: whole milliseconds and the microseconds left over
MicroToMilli(us) == [ms |-> us \div 1000, us |-> us % 1000]

\* the lines of /proc/fs/cifs/Stats after the share called name
RECURSIVE CifsScan(_, _, _, _, _)
CifsScan(inf, name, lines, i, found) ==
    IF i > Len(lines) THEN inf
    ELSE LET line == lines[i] IN
         IF ~found
         THEN CifsScan(inf, name, lines, i + 1, line.kind = "share" /\ IS(line.name, name))
         ELSE IF line.kind = "stat" /\ line.label1 = "Reads" /\ line.label2 = "Bytes"
              THEN CifsScan([inf EXCEPT !.read.bytes = Statistics_update(@, 0, line.n2),
                                        !.read.operations = Statistics_update(@, 0, line.n1)],
                            name, lines, i + 1, found)
              ELSE IF line.kind = "stat" /\ line.label1 = "Writes" /\ line.label2 = "Bytes"
              THEN [inf EXCEPT !.write.bytes = Statistics_update(@, 0, line.n2),
                               !.write.operations = Statistics_update(@, 0, line.n1)]
              ELSE CifsScan(inf, name, lines, i + 1, found)

Linux_getCifsDiskActivity(inf, stat) ==
    IF ~stat.cifs.exists
    THEN Collected(inf, FALSE, "CIFSSTAT")
    ELSE Collected(CifsScan(inf, inf.object.key, stat.cifs.content, 1, FALSE), TRUE, "CIFSSTAT")

\* variant: the read counter is fed the bytes sent
Nfs_feedRead_sent(inf, nums) ==
    [inf EXCEPT !.read.time = Statistics_update(@, 0, MicroToMilli(nums[8])),
                !.read.bytes = Statistics_update(@, 0, nums[4]),
                !.read.operations = Statistics_update(@, 0, nums[1])]

\* a READ line: operations, bytesSent, bytesReceived and time are the first,
\* fourth, fifth and eighth number after the name
Nfs_feedRead(inf, nums) ==
    [inf EXCEPT !.read.time = Statistics_update(@, 0, MicroToMilli(nums[8])),
                !.read.bytes = Statistics_update(@, 0, nums[5]),
                !.read.operations = Statistics_update(@, 0, nums[1])]

\* the lines of /proc/self/mountstats after the section of the device called name
RECURSIVE NfsScan(_, _, _, _, _)
NfsScan(inf, name, lines, i, found) ==
    IF i > Len(lines) THEN inf
    ELSE LET line == lines[i] IN
         IF ~found /\ line.kind = "device" /\ line.name = name
         THEN NfsScan(inf, name, lines, i + 1, TRUE)
         ELSE IF found /\ line.kind = "op" /\ Len(line.nums) >= 8
         THEN IF line.name = "READ"
              THEN NfsScan(Nfs_feedRead(inf, line.nums), name, lines, i + 1, found)
              ELSE IF line.name = "WRITE"
              THEN [inf EXCEPT !.write.time = Statistics_update(@, 0, MicroToMilli(line.nums[8])),
                               !.write.bytes = Statistics_update(@, 0, line.nums[4]),
                               !.write.operations = Statistics_update(@, 0, line.nums[1])]
              ELSE NfsScan(inf, name, lines, i + 1, found)
         ELSE NfsScan(inf, name, lines, i + 1, found)

Linux_getNfsDiskActivity(inf, stat) ==
    IF ~stat.nfs.exists
    THEN Collected(inf, FALSE, "NFSSTAT")
    ELSE Collected(NfsScan(inf, inf.object.device, stat.nfs.content, 1, FALSE), TRUE, "NFSSTAT")

SectorsToBytes(sectors) == sectors * 512

Linux_getBlockDiskActivity(inf, stat) ==
    IF ~stat.block.exists
    THEN Collected(inf, FALSE, "block")
    ELSE IF Len(stat.block.content) < 8
    THEN Collected(inf, FALSE, "block")
    ELSE LET f == stat.block.content IN
         Collected([inf EXCEPT !.read.time = Statistics_update(@, 0, f[4]),
                               !.read.bytes = Statistics_update(@, 0, SectorsToBytes(f[3])),
                               !.read.operations = Statistics_update(@, 0, f[1]),
                               !.write.time = Statistics_update(@, 0, f[8]),
                               !.write.bytes = Statistics_update(@, 0, SectorsToBytes(f[7])),
                               !.write.operations = Statistics_update(@, 0, f[5])],
                   TRUE, "block")

(* ------------------------------------------------- uint64_t at full width *)

\* a uint64_t as four 16-bit limbs, least significant first
Limb == 2^16

U64(n) == <<n % Limb, n \div Limb, 0, 0>>

U64_zero == U64(0)

U64_max == <<Limb - 1, Limb - 1, Limb - 1, Limb - 1>>

\* 2^55, the least sector count whose byte count does not fit 64 bits
U64_2p55 == <<0, 0, 0, 128>>

U64_2p55m1 == <<Limb - 1, Limb - 1, Limb - 1, 127>>

\* u * k for a small k: the limbs of the product and what is carried out of bit 63
U64_mulCarry(u, k) ==
    LET p1 == u[1] * k
        p2 == u[2] * k + p1 \div Limb
        p3 == u[3] * k + p2 \div Limb
        p4 == u[4] * k + p3 \div Limb
    IN [limbs |-> <<p1 % Limb, p2 % Limb, p3 % Limb, p4 % Limb>>, carry |-> p4 \div Limb]

\* uint64_t multiplication: the carry is lost
U64_mul(u, k) == U64_mulCarry(u, k).limbs

\* u + k for a small k: the limbs of the sum and what is carried out of bit 63
U64_addCarry(u, k) ==
    LET s1 == u[1] + k
        s2 == u[2] + s1 \div Limb
        s3 == u[3] + s2 \div Limb
        s4 == u[4] + s3 \div Limb
    IN [limbs |-> <<s1 % Limb, s2 % Limb, s3 % Limb, s4 % Limb>>, carry |-> s4 \div Limb]

\* uint64_t addition: the carry is lost
U64_add(u, k) == U64_addCarry(u, k).limbs

\* u - k for a small k: the limbs of the difference and what is borrowed from
\* above bit 63
U64_subBorrow(u, k) ==
    LET d1 == u[1] - k
        b1 == IF d1 < 0 THEN 1 ELSE 0
        d2 == u[2] - b1
        b2 == IF d2 < 0 THEN 1 ELSE 0
        d3 == u[3] - b2
        b3 == IF d3 < 0 THEN 1 ELSE 0
        d4 == u[4] - b3
        b4 == IF d4 < 0 THEN 1 ELSE 0
    IN [limbs |-> <<d1 + b1 * Limb, d2 + b2 * Limb, d3 + b3 * Limb, d4 + b4 * Limb>>,
        borrow |-> b4]

\* uint64_t subtraction: the difference wraps around
U64_sub(u, k) == U64_subBorrow(u, k).limbs

\* a < b
U64_less(a, b) ==
    \/ a[4] < b[4]
    \/ a[4] = b[4] /\ a[3] < b[3]
    \/ a[4] = b[4] /\ a[3] = b[3] /\ a[2] < b[2]
    \/ a[4] = b[4] /\ a[3] = b[3] /\ a[2] = b[2] /\ a[1] < b[1]

\* readSectors * 512 in uint64_t
SectorsToBytes64(sectors) == U64_mul(sectors, 512)

\* _getBlockDiskActivity with the fields of the file and the values fed to the
\* counters held at the width of their uint64_t variables
Linux_getBlockDiskActivity64(inf, stat) ==
    IF ~stat.block.exists
    THEN Collected(inf, FALSE, "block")
    ELSE IF Len(stat.block.content) < 8
    THEN Collected(inf, FALSE, "block")
    ELSE LET f == stat.block.content IN
         Collected([inf EXCEPT !.read.time = Statistics_update(@, 0, f[4]),
                               !.read.bytes = Statistics_update(@, 0, SectorsToBytes64(f[3])),
                               !.read.operations = Statistics_update(@, 0, f[1]),
                               !.write.time = Statistics_update(@, 0, f[8]),
                               !.write.bytes = Statistics_update(@, 0, SectorsToBytes64(f[7])),
                               !.write.operations = Statistics_update(@, 0, f[5])],
                   TRUE, "block")

\* call through the function pointer stored on the handle
Linux_callDiskActivity(inf, stat) ==
    CASE inf.object.getDiskActivity = "_getNfsDiskActivity"   -> Linux_getNfsDiskActivity(inf, stat)
      [] inf.object.getDiskActivity = "_getCifsDiskActivity"  -> Linux_getCifsDiskActivity(inf, stat)
      [] inf.object.getDiskActivity = "_getBlockDiskActivity" -> Linux_getBlockDiskActivity(inf, stat)
      [] OTHER                                                 -> Linux_getDummyDiskActivity(inf, stat)

(* ------------------------------------------- sysdep_LINUX.c: resolution *)

Linux_compareMountpoint(mountpoint, mnt, layout) ==
    IS(mountpoint, mnt.mnt_dir) /\ ~IS(mnt.mnt_fsname, S_rootfs)

Linux_compareDevice(device, mnt, layout) ==
    \/ IS(device, mnt.mnt_fsname)
    \/ (realpath(layout, mnt.mnt_fsname).ok /\ IS(device, realpath(layout, mnt.mnt_fsname).path))

\* call through the compare function pointer
Linux_compare(compare, path, mnt, layout) ==
    IF compare = "_compareMountpoint"
    THEN Linux_compareMountpoint(path, mnt, layout)
    ELSE Linux_compareDevice(path, mnt, layout)

\* variant: the scan goes on and the last entry the comparison accepts is taken
FirstMatch_last(table, compare, path, layout) ==
    LET hits == {i \in 1..Len(table) :
                    IF compare = "_compareMountpoint"
                    THEN IS(path, table[i].mnt_dir) /\ ~IS(table[i].mnt_fsname, S_rootfs)
                    ELSE \/ IS(path, table[i].mnt_fsname)
                         \/ (realpath(layout, table[i].mnt_fsname).ok
                             /\ IS(path, realpath(layout, table[i].mnt_fsname).path))}
    IN IF hits = {} THEN 0 ELSE CHOOSE i \in hits : \A j \in hits : j <= i

\* getmntent loop: index of the first entry the comparison accepts, 0 when none
FirstMatch(table, compare, path, layout) ==
    LET hits == {i \in 1..Len(table) : Linux_compare(compare, path, table[i], layout)}
    IN IF hits = {} THEN 0 ELSE CHOOSE i \in hits : \A j \in hits : i <= j

\* result of a resolution: the record, the return value, how it ended
Resolution(inf, rv, outcome) == [inf |-> inf, rv |-> rv, outcome |-> outcome]

\* variant: the device path is canonicalized before the type is looked at
Linux_classify_realpathFirst(inf, mnt, layout) ==
    LET i1 == [inf EXCEPT !.object.device = mnt.mnt_fsname,
                          !.object.mountpoint = mnt.mnt_dir,
                          !.object.type = mnt.mnt_type,
                          !.object.getDiskUsage = "_getDiskUsage"]
        rp == realpath(layout, mnt.mnt_fsname)
    IN IF rp.ok
       THEN Resolution([i1 EXCEPT !.object.getDiskActivity = "_getBlockDiskActivity",
                                  !.object.key = File_basename(rp.path),
                                  !.object.mounted = TRUE], TRUE, "ok")
       ELSE IF rp.errno # ENOENT
       THEN Resolution([i1 EXCEPT !.object.getDiskActivity = "_getDummyDiskActivity",
                                  !.object.key = rp.path,
                                  !.object.mounted = FALSE], FALSE, "error")
       ELSE IF Str_startsWith(mnt.mnt_type, S_nfs)
       THEN Resolution([i1 EXCEPT !.object.getDiskActivity = "_getNfsDiskActivity",
                                  !.object.mounted = TRUE], TRUE, "ok")
       ELSE IF IS(mnt.mnt_type, S_cifs)
       THEN Resolution([i1 EXCEPT !.object.getDiskActivity = "_getCifsDiskActivity",
                                  !.object.key = Str_replaceChar(i1.object.device, "/", "\\"),
                                  !.object.mounted = TRUE], TRUE, "ok")
       ELSE Resolution([i1 EXCEPT !.object.getDiskActivity = "_getDummyDiskActivity",
                                  !.object.key = rp.path,
                                  !.object.mounted = TRUE], TRUE, "ok")

\* the body of the loop for the matching entry
Linux_classify(inf, mnt, layout) ==
    LET i1 == [inf EXCEPT !.object.device = mnt.mnt_fsname,
                          !.object.mountpoint = mnt.mnt_dir,
                          !.object.type = mnt.mnt_type,
                          !.object.getDiskUsage = "_getDiskUsage"]
        rp == realpath(layout, mnt.mnt_fsname)
    IN IF Str_startsWith(mnt.mnt_type, S_nfs)
       THEN Resolution([i1 EXCEPT !.object.getDiskActivity = "_getNfsDiskActivity",
                                  !.object.mounted = TRUE], TRUE, "ok")
       ELSE IF IS(mnt.mnt_type, S_cifs)
       THEN Resolution([i1 EXCEPT !.object.getDiskActivity = "_getCifsDiskActivity",
                                  !.object.key = Str_replaceChar(i1.object.device, "/", "\\"),
                                  !.object.mounted = TRUE], TRUE, "ok")
       ELSE IF rp.ok
       THEN Resolution([i1 EXCEPT !.object.getDiskActivity = "_getBlockDiskActivity",
                                  !.object.key = File_basename(rp.path),
                                  !.object.mounted = TRUE], TRUE, "ok")
       ELSE IF rp.errno # ENOENT
       THEN Resolution([i1 EXCEPT !.object.getDiskActivity = "_getDummyDiskActivity",
                                  !.object.key = rp.path,
                                  !.object.mounted = FALSE], FALSE, "error")
       ELSE Resolution([i1 EXCEPT !.object.getDiskActivity = "_getDummyDiskActivity",
                                  !.object.key = rp.path,
                                  !.object.mounted = TRUE], TRUE, "ok")

\* table is what setmntent finds at /proc/self/mounts
Linux_setDevice(inf, st, path, compare, table, layout) ==
    IF ~table.exists
    THEN Resolution(inf, FALSE, "unreadable")
    ELSE LET i1 == [inf EXCEPT !.object.generation = st.generation]
             m  == FirstMatch(table.content, compare, path, layout)
         IN IF m = 0
            THEN Resolution([i1 EXCEPT !.object.mounted = FALSE], FALSE, "notfound")
            ELSE Linux_classify(i1, table.content[m], layout)

\* variant: only the generations are compared
Linux_stale_generationOnly(inf, st) ==
    inf.object.generation # st.generation

\* variant: only the missing descriptor forces a new resolution
Linux_stale_descriptorOnly(inf, st) ==
    st.fd = -1

\* the handle must be resolved again
Linux_stale(inf, st) ==
    inf.object.generation # st.generation \/ st.fd = -1

\* the descriptor open(MOUNTS, O_RDONLY) returns
MountsFd == 3

\* variant: the descriptor is opened in every cycle of a daemon
Linux_opensNotify_everyCycle(st, flags) ==
    flags.daemon /\ ~flags.once

\* whether this cycle calls open(MOUNTS, O_RDONLY)
Linux_opensNotify(st, flags) ==
    st.fd = -1 /\ flags.daemon /\ ~flags.once

\* lazy open of the notification descriptor
Linux_openNotify(st, flags, openOk) ==
    IF Linux_opensNotify(st, flags)
    THEN [st EXCEPT !.fd = IF openOk THEN MountsFd ELSE -1]
    ELSE st

\* variant: a reported change advances the generation by two
Linux_pollNotify_skips(st, pending, pollOk) ==
    IF st.fd # -1 /\ pollOk /\ pending
    THEN [st EXCEPT !.generation = @ + 2]
    ELSE st

\* variant: revents is not looked at
Linux_pollNotify_anyPoll(st, pending, pollOk) ==
    IF st.fd # -1 /\ pollOk
    THEN [st EXCEPT !.generation = @ + 1]
    ELSE st

\* zero-timeout poll of the descriptor: POLLERR is reported when an event is pending
Linux_pollNotify(st, pending, pollOk) ==
    IF st.fd # -1 /\ pollOk /\ pending
    THEN [st EXCEPT !.generation = @ + 1]
    ELSE st

\* the kernel consumes the event when poll reports it
PendingAfterPoll(st, pending, pollOk) ==
    IF st.fd # -1 /\ pollOk THEN FALSE ELSE pending

\* in: the kernel's answers of this cycle
Linux_getDevice(inf, st, pending, flags, path, compare, in) ==
    LET st1   == Linux_openNotify(st, flags, in.openOk)
        st2   == Linux_pollNotify(st1, pending, in.pollOk)
        stale == Linux_stale(inf, st2)
        res   == IF stale
                 THEN Linux_setDevice(inf, st2, path, compare, in.table, in.layout)
                 ELSE Resolution(inf, TRUE, "cached")
        use   == IF res.inf.object.mounted
                 THEN Linux_getDiskUsage(res.inf, in.usage)
                 ELSE Collected(res.inf, FALSE, "none")
        act   == IF res.inf.object.mounted /\ use.rv
                 THEN Linux_callDiskActivity(use.inf, in.stat)
                 ELSE Collected(use.inf, FALSE, "none")
    IN [ inf |-> act.inf,
         statistics |-> st2,
         notify |-> PendingAfterPoll(st1, pending, in.pollOk),
         opened |-> IF Linux_opensNotify(st, flags) /\ in.openOk THEN 1 ELSE 0,
         rv |-> res.inf.object.mounted /\ use.rv /\ act.rv,
         outcome |-> res.outcome,
         usage |-> IF ~res.inf.object.mounted THEN "none" ELSE IF use.rv THEN "ok" ELSE "fail",
         activity |-> IF ~(res.inf.object.mounted /\ use.rv) THEN "none"
                      ELSE IF act.rv THEN "ok" ELSE "fail",
         source |-> act.source,
         collector |-> IF res.inf.object.mounted /\ use.rv
                       THEN use.inf.object.getDiskActivity
                       ELSE "none" ]

Linux_Filesystem_getByMountpoint(inf, st, pending, flags, path, in) ==
    Linux_getDevice(inf, st, pending, flags, path, "_compareMountpoint", in)

Linux_Filesystem_getByDevice(inf, st, pending, flags, path, in) ==
    Linux_getDevice(inf, st, pending, flags, path, "_compareDevice", in)

\* variant: the constructor leaves the generation of the static initialiser
Linux_constructor_zero == [fd |-> -1, generation |-> 0]

\* static initialiser followed by _constructor
Linux_constructor == [fd |-> -1, generation |-> 0 + 1]

(* ------------------------------------------------ shared by the variants *)

\* result of one poll cycle: the record, the process-wide statistics, the return
\* value, how resolution ended, what the collectors did, the handles the cycle
\* acquired and still holds when it returns, and the activity collector it
\* called through the pointer stored on the handle
Polled(inf, st, rv, outcome, usage, activity, source) ==
    [ inf |-> inf, statistics |-> st, rv |-> rv, outcome |-> outcome, usage |-> usage,
      activity |-> activity, source |-> source, held |-> 0, collector |-> "none" ]

\* the same cycle returning with n handles not released
Holding(r, n) == [r EXCEPT !.held = n]

\* the same cycle having called object.getDiskActivity, which pointed at fp
Calling(r, fp) == [r EXCEPT !.collector = fp]

\* result of a mountpoint-based _getDiskActivity
Activity(inf, st, rv, outcome, activity, source) ==
    [ inf |-> inf, statistics |-> st, rv |-> rv, outcome |-> outcome, activity |-> activity,
      source |-> source ]

\* the six Statistics_reset calls of the not-resolved branch
ResetCounters(inf) ==
    [inf EXCEPT !.read.time = Statistics_reset(@),
                !.read.bytes = Statistics_reset(@),
                !.read.operations = Statistics_reset(@),
                !.write.time = Statistics_reset(@),
                !.write.bytes = Statistics_reset(@),
                !.write.operations = Statistics_reset(@)]

isdigit(c) == c \in {"0", "1", "2", "3", "4", "5", "6", "7", "8", "9"}

\* strncpy(dst, src, n): no terminator is written when src has n characters or more
strncpy(dst, src, n) ==
    IF Len(src) < n THEN src ELSE SubSeq(src, 1, n) \o SubSeq(dst, n + 1, Len(dst))

\* the decimal number a string starts with (one digit suffices here), as Str_parseInt reads it
Str_parseInt(s) ==
    CHOOSE n \in 0..9 : s[1] = <<"0", "1", "2", "3", "4", "5", "6", "7", "8", "9">>[n + 1]

\* index of the first entry mounted on the mountpoint, 0 when none
FirstMounted(table, mountpoint) ==
    LET hits == {i \in 1..Len(table) : IS(table[i].mnt_dir, mountpoint)}
    IN IF hits = {} THEN 0 ELSE CHOOSE i \in hits : \A j \in hits : i <= j

\* variant: only a cache that is old enough is refreshed
StatisticsExpired_forwardOnly(st, now) ==
    U64_less(U64_add(st.timestamp, 1000), now)

\* the refresh condition of the BSD _getStatistics, in uint64_t arithmetic:
\* timestamp - 1000 wraps around for a timestamp below 1000, timestamp + 1000
\* for a timestamp within 1000 of the largest value
StatisticsExpired(st, now) ==
    \/ U64_less(U64_add(st.timestamp, 1000), now)
    \/ U64_less(now, U64_sub(st.timestamp, 1000))

\* the statistics of the variants that keep a disk table: nothing fetched yet
DiskTableZero == [timestamp |-> U64_zero, disk |-> <<>>]

\* index of the first entry of a set of table indices, 0 when there is none
FirstIndex(hits) ==
    IF hits = {} THEN 0 ELSE CHOOSE i \in hits : \A j \in hits : i <= j

\* index of the first disk of the table with the name, 0 when none
FirstDisk(disks, name) ==
    FirstIndex({i \in 1..Len(disks) : IS(name, disks[i].name)})

\* index of the first device of the table with the driver name and unit, 0 when none
FreeBsd_findDevice(disks, device) ==
    FirstIndex({i \in 1..Len(disks) : /\ disks[i].unit_number = device.instance
                                      /\ IS(disks[i].device_name, device.name)})

(* ------------------------------------- sysdep_FREEBSD.c: FreeBSD, devstat *)

FreeBsd_bintimeToMilli(time) == time.sec * 1000 + time.msec

\* /dev/da0p2 -> name da, instance 0
FreeBsd_parseDevice(path) ==
    LET base == File_basename(path)
        idx  == {i \in 1..Len(base) : isdigit(base[i])}
        i    == CHOOSE k \in idx : \A j \in idx : k <= j
    IN IF idx = {}
       THEN [ok |-> FALSE, name |-> S_empty, instance |-> 0]
       ELSE [ok |-> TRUE, name |-> SubSeq(base, 1, i - 1),
             instance |-> Str_parseInt(SubSeq(base, i, Len(base)))]

\* table is what getfsstat returns
FreeBsd_getDevice(inf, mountpoint, table) ==
    IF ~table.exists
    THEN [inf |-> inf, rv |-> FALSE, outcome |-> "unreadable", device |-> FreeBsd_parseDevice(S_empty)]
    ELSE LET m == FirstMounted(table.content, mountpoint) IN
         IF m = 0
         THEN [inf |-> inf, rv |-> FALSE, outcome |-> "notfound", device |-> FreeBsd_parseDevice(S_empty)]
         ELSE LET sfs == table.content[m]
                  i1  == [inf EXCEPT !.type = sfs.mnt_type]
                  dev == FreeBsd_parseDevice(sfs.mnt_fsname)
              IN IF IS(sfs.mnt_type, S_zfs)
                 THEN [inf |-> i1, rv |-> FALSE, outcome |-> "error", device |-> FreeBsd_parseDevice(S_empty)]
                 ELSE [inf |-> i1, rv |-> dev.ok, outcome |-> IF dev.ok THEN "ok" ELSE "error",
                       device |-> dev]

FreeBsd_getStatistics(st, now, stat) ==
    IF StatisticsExpired(st, now)
    THEN IF ~stat.devstat.exists
         THEN [st |-> st, rv |-> FALSE, source |-> "devstat"]
         ELSE [st |-> [st EXCEPT !.timestamp = now, !.disk = stat.devstat.content],
               rv |-> TRUE, source |-> "devstat"]
    ELSE [st |-> st, rv |-> TRUE, source |-> "none"]

FreeBsd_getDiskActivity(inf, st, mountpoint, in) ==
    LET res == FreeBsd_getDevice(inf, mountpoint, in.table) IN
    IF res.rv
    THEN LET got == FreeBsd_getStatistics(st, in.now, in.stat)
             d   == FreeBsd_findDevice(got.st.disk, res.device)
         IN IF ~got.rv
            THEN Activity(res.inf, got.st, FALSE, res.outcome, "fail", got.source)
            ELSE IF d = 0
            THEN Activity(res.inf, got.st, TRUE, res.outcome, "ok", got.source)
            ELSE LET k == got.st.disk[d] IN
                 Activity([res.inf EXCEPT
                              !.read.time = Statistics_update(@, 0, FreeBsd_bintimeToMilli(k.rtime)),
                              !.read.bytes = Statistics_update(@, 0, k.rbytes),
                              !.read.operations = Statistics_update(@, 0, k.rxfer),
                              !.write.time = Statistics_update(@, 0, FreeBsd_bintimeToMilli(k.wtime)),
                              !.write.bytes = Statistics_update(@, 0, k.wbytes),
                              !.write.operations = Statistics_update(@, 0, k.wxfer)],
                          got.st, TRUE, res.outcome, "ok", got.source)
    ELSE Activity(ResetCounters(res.inf), st, TRUE, res.outcome, "reset", "none")

\* struct statfs: f_bsize is stored as it is
FreeBsd_getDiskUsage(inf, usage) ==
    IF ~usage.ok
    THEN Collected(inf, FALSE, "none")
    ELSE Collected([inf EXCEPT !.f_bsize = usage.f_bsize,
                               !.f_blocks = usage.f_blocks,
                               !.f_blocksfree = usage.f_bavail,
                               !.f_blocksfreetotal = usage.f_bfree,
                               !.f_files = usage.f_files,
                               !.f_filesfree = usage.f_ffree,
                               !._flags = inf.flags,
                               !.flags = usage.f_flag],
                   TRUE, "none")

\* variant: the activity collector runs whatever the usage collector returned
FreeBsd_filesystem_usage_sysdep_both(inf, st, mountpoint, in) ==
    LET use == FreeBsd_getDiskUsage(inf, in.usage)
        act == FreeBsd_getDiskActivity(use.inf, st, mountpoint, in)
    IN Polled(act.inf, act.statistics, use.rv /\ act.rv, act.outcome,
              IF use.rv THEN "ok" ELSE "fail", act.activity, act.source)

FreeBsd_filesystem_usage_sysdep(inf, st, mountpoint, in) ==
    LET use == FreeBsd_getDiskUsage(inf, in.usage) IN
    IF use.rv
    THEN LET act == FreeBsd_getDiskActivity(use.inf, st, mountpoint, in) IN
         Polled(act.inf, act.statistics, act.rv, act.outcome, "ok", act.activity, act.source)
    ELSE Polled(use.inf, st, FALSE, "none", "fail", "none", "none")

(* ------------------------------ sysdep_FREEBSD.c, second file: /etc/mnttab *)

\* not implemented: nothing is looked up and nothing is collected
Mnttab_getDiskActivity(inf, st, mountpoint, in) ==
    Activity(inf, st, TRUE, "none", "ok", "none")

\* space is reported in fragments: scale to blocks
Mnttab_getDiskUsage(inf, usage) ==
    IF ~usage.ok
    THEN Collected(inf, FALSE, "none")
    ELSE LET size == SizeFactor(usage) IN
         IF size = 0 /\ usage.ub.trap
         THEN Collected(inf, FALSE, "SIGFPE")
         ELSE Collected([inf EXCEPT !.f_bsize = usage.f_bsize,
                                    !.f_blocks = Quotient(usage.f_blocks, size, usage),
                                    !.f_blocksfree = Quotient(usage.f_bavail, size, usage),
                                    !.f_blocksfreetotal = Quotient(usage.f_bfree, size, usage),
                                    !.f_files = usage.f_files,
                                    !.f_filesfree = usage.f_ffree,
                                    !._flags = inf.flags,
                                    !.flags = usage.f_flag],
                        TRUE, "none")

Mnttab_filesystem_usage_sysdep(inf, st, mountpoint, in) ==
    LET use == Mnttab_getDiskUsage(inf, in.usage) IN
    IF use.rv
    THEN LET act == Mnttab_getDiskActivity(use.inf, st, mountpoint, in) IN
         Polled(act.inf, act.statistics, act.rv, act.outcome, "ok", act.activity, act.source)
    ELSE Polled(use.inf, st, FALSE, "none", "fail", "none", "none")

(* ------------------------------------ sysdep_DARWIN.c: Darwin, by handle *)

Darwin_getDiskUsage(inf, usage) ==
    IF ~usage.ok
    THEN Collected(inf, FALSE, "none")
    ELSE Collected([inf EXCEPT !.f_bsize = usage.f_bsize,
                               !.f_blocks = usage.f_blocks,
                               !.f_blocksfree = usage.f_bavail,
                               !.f_blocksfreetotal = usage.f_bfree,
                               !.f_files = usage.f_files,
                               !.f_filesfree = usage.f_ffree,
                               !._flags = inf.flags,
                               !.flags = usage.f_flag],
                   TRUE, "none")

Darwin_getDummyDiskActivity(inf, stat) == Collected(inf, TRUE, "none")

\* value / 1048576.: nanoseconds to milliseconds
NanoToMilli(value) == value \div 1048576

\* the statistics dictionary of the whole disk, when the chain of lookups succeeds
Darwin_getBlockDiskActivity(inf, stat) ==
    IF ~stat.iokit.exists
    THEN Collected(inf, FALSE, "iokit")
    ELSE LET d == stat.iokit.content IN
         Collected([inf EXCEPT !.read.bytes = Statistics_update(@, 0, d.bytesRead),
                               !.read.operations = Statistics_update(@, 0, d.reads),
                               !.read.time = Statistics_update(@, 0, NanoToMilli(d.totalReadTime)),
                               !.write.bytes = Statistics_update(@, 0, d.bytesWritten),
                               !.write.operations = Statistics_update(@, 0, d.writes),
                               !.write.time = Statistics_update(@, 0, NanoToMilli(d.totalWriteTime))],
                   TRUE, "iokit")

Darwin_compareMountpoint(mountpoint, mnt) == IS(mountpoint, mnt.mnt_dir)

Darwin_compareDevice(device, mnt) == IS(device, mnt.mnt_fsname)

\* index of the first entry of the table the comparison accepts, 0 when none;
\* the comparisons of the BSD and HP-UX variants are those of Darwin
FirstCompared(table, compare, path) ==
    LET hits == {i \in 1..Len(table) :
                    IF compare = "_compareMountpoint"
                    THEN Darwin_compareMountpoint(path, table[i])
                    ELSE Darwin_compareDevice(path, table[i])}
    IN IF hits = {} THEN 0 ELSE CHOOSE i \in hits : \A j \in hits : i <= j

Darwin_setDevice(inf, path, compare, table) ==
    IF ~table.exists
    THEN Resolution([inf EXCEPT !.object.mounted = FALSE], FALSE, "unreadable")
    ELSE LET m == FirstCompared(table.content, compare, path) IN
         IF m = 0
         THEN Resolution([inf EXCEPT !.object.mounted = FALSE], FALSE, "notfound")
         ELSE LET mnt == table.content[m] IN
              Resolution([inf EXCEPT
                             !.object.getDiskActivity = IF IS(mnt.mnt_type, S_hfs)
                                                        THEN "_getBlockDiskActivity"
                                                        ELSE "_getDummyDiskActivity",
                             !.object.device = mnt.mnt_fsname,
                             !.object.mountpoint = mnt.mnt_dir,
                             !.object.type = mnt.mnt_type,
                             !.object.getDiskUsage = "_getDiskUsage",
                             !.object.mounted = TRUE],
                         TRUE, "ok")

Darwin_getDevice(inf, st, path, compare, in) ==
    LET res == Darwin_setDevice(inf, path, compare, in.table) IN
    IF res.rv
    THEN LET use == Darwin_getDiskUsage(res.inf, in.usage) IN
         IF use.rv
         THEN LET act == IF use.inf.object.getDiskActivity = "_getBlockDiskActivity"
                         THEN Darwin_getBlockDiskActivity(use.inf, in.stat)
                         ELSE Darwin_getDummyDiskActivity(use.inf, in.stat)
              IN Calling(Polled(act.inf, st, act.rv, res.outcome, "ok",
                                IF act.rv THEN "ok" ELSE "fail", act.source),
                         use.inf.object.getDiskActivity)
         ELSE Polled(use.inf, st, FALSE, res.outcome, "fail", "none", "none")
    ELSE Polled(res.inf, st, FALSE, res.outcome, "none", "none", "none")

(* ----------------------- sysdep_DARWIN.c, second file: OpenBSD, by handle *)

OpenBsd_timevalToMilli(time) == time.sec * 1000 + time.usec \div 1000

\* /dev/sd0a -> sd0, copied over the key without a terminator
OpenBsd_parseDevice(path, key) ==
    LET base == File_basename(path)
        idx  == {i \in 1..Len(base) : isdigit(base[i])}
        i    == CHOOSE k \in idx : \A j \in idx : j <= k
    IN IF idx = {}
       THEN [ok |-> FALSE, key |-> key]
       ELSE [ok |-> TRUE, key |-> strncpy(key, base, i)]

\* the two sysctl calls answer together
OpenBsd_getStatistics(st, now, stat) ==
    IF StatisticsExpired(st, now)
    THEN IF ~stat.devstat.exists
         THEN [st |-> st, rv |-> FALSE, source |-> "devstat"]
         ELSE [st |-> [st EXCEPT !.timestamp = now, !.disk = stat.devstat.content],
               rv |-> TRUE, source |-> "devstat"]
    ELSE [st |-> st, rv |-> TRUE, source |-> "none"]

OpenBsd_getDummyDiskActivity(inf, st, now, stat) ==
    [inf |-> inf, st |-> st, rv |-> TRUE, source |-> "none"]

OpenBsd_getBlockDiskActivity(inf, st, now, stat) ==
    LET got == OpenBsd_getStatistics(st, now, stat)
        d   == FirstDisk(got.st.disk, inf.object.key)
    IN IF ~got.rv \/ d = 0
       THEN [inf |-> inf, st |-> got.st, rv |-> got.rv, source |-> got.source]
       ELSE LET k == got.st.disk[d] IN
            [inf |-> [inf EXCEPT !.read.bytes = Statistics_update(@, 0, k.rbytes),
                                 !.write.bytes = Statistics_update(@, 0, k.wbytes),
                                 !.read.operations = Statistics_update(@, 0, k.rxfer),
                                 !.write.operations = Statistics_update(@, 0, k.wxfer),
                                 !.runTime = Statistics_update(@, 0, OpenBsd_timevalToMilli(k.time))],
             st |-> got.st, rv |-> TRUE, source |-> got.source]

OpenBsd_getDiskUsage(inf, usage) ==
    IF ~usage.ok
    THEN Collected(inf, FALSE, "none")
    ELSE Collected([inf EXCEPT !.f_bsize = usage.f_bsize,
                               !.f_blocks = usage.f_blocks,
                               !.f_blocksfree = usage.f_bavail,
                               !.f_blocksfreetotal = usage.f_bfree,
                               !.f_files = usage.f_files,
                               !.f_filesfree = usage.f_ffree,
                               !._flags = inf.flags,
                               !.flags = usage.f_flag],
                   TRUE, "none")

\* variant: the jump to error leaves the mounted flag as it was
OpenBsd_setDevice_keepsMounted(inf, path, compare, table) ==
    IF ~table.exists
    THEN Resolution([inf EXCEPT !.object.mounted = FALSE], FALSE, "unreadable")
    ELSE LET m == FirstCompared(table.content, compare, path) IN
         IF m = 0
         THEN Resolution([inf EXCEPT !.object.mounted = FALSE], FALSE, "notfound")
         ELSE LET mnt == table.content[m]
                  dev == OpenBsd_parseDevice(mnt.mnt_fsname, inf.object.key)
              IN IF IS(mnt.mnt_type, S_ffs) /\ ~dev.ok
                 THEN Resolution([inf EXCEPT !.object.getDiskActivity = "_getBlockDiskActivity"],
                                 FALSE, "error")
                 ELSE Resolution([inf EXCEPT
                                     !.object.getDiskActivity = IF IS(mnt.mnt_type, S_ffs)
                                                                THEN "_getBlockDiskActivity"
                                                                ELSE "_getDummyDiskActivity",
                                     !.object.key = IF IS(mnt.mnt_type, S_ffs) THEN dev.key ELSE @,
                                     !.object.device = mnt.mnt_fsname,
                                     !.object.mountpoint = mnt.mnt_dir,
                                     !.object.type = mnt.mnt_type,
                                     !.object.getDiskUsage = "_getDiskUsage",
                                     !.object.mounted = TRUE],
                                 TRUE, "ok")

\* the fields of a matching entry are stored after the device name is parsed
OpenBsd_setDevice(inf, path, compare, table) ==
    IF ~table.exists
    THEN Resolution([inf EXCEPT !.object.mounted = FALSE], FALSE, "unreadable")
    ELSE LET m == FirstCompared(table.content, compare, path) IN
         IF m = 0
         THEN Resolution([inf EXCEPT !.object.mounted = FALSE], FALSE, "notfound")
         ELSE LET mnt == table.content[m]
                  dev == OpenBsd_parseDevice(mnt.mnt_fsname, inf.object.key)
              IN IF IS(mnt.mnt_type, S_ffs) /\ ~dev.ok
                 THEN Resolution([inf EXCEPT !.object.getDiskActivity = "_getBlockDiskActivity",
                                             !.object.mounted = FALSE], FALSE, "error")
                 ELSE Resolution([inf EXCEPT
                                     !.object.getDiskActivity = IF IS(mnt.mnt_type, S_ffs)
                                                                THEN "_getBlockDiskActivity"
                                                                ELSE "_getDummyDiskActivity",
                                     !.object.key = IF IS(mnt.mnt_type, S_ffs) THEN dev.key ELSE @,
                                     !.object.device = mnt.mnt_fsname,
                                     !.object.mountpoint = mnt.mnt_dir,
                                     !.object.type = mnt.mnt_type,
                                     !.object.getDiskUsage = "_getDiskUsage",
                                     !.object.mounted = TRUE],
                                 TRUE, "ok")

\* the buffers of getfsstat entries _setDevice allocated and did not free: the
\* jump to error after a device name that cannot be parsed passes FREE(mnt)
OpenBsd_setDevice_held(inf, path, compare, table) ==
    IF ~table.exists THEN 0
    ELSE LET m == FirstCompared(table.content, compare, path) IN
         IF m = 0 THEN 0
         ELSE IF /\ IS(table.content[m].mnt_type, S_ffs)
                 /\ ~OpenBsd_parseDevice(table.content[m].mnt_fsname, inf.object.key).ok
         THEN 1
         ELSE 0

OpenBsd_getDevice(inf, st, path, compare, in) ==
    LET res == OpenBsd_setDevice(inf, path, compare, in.table) IN
    IF res.rv
    THEN LET use == OpenBsd_getDiskUsage(res.inf, in.usage) IN
         IF use.rv
         THEN LET act == IF use.inf.object.getDiskActivity = "_getBlockDiskActivity"
                         THEN OpenBsd_getBlockDiskActivity(use.inf, st, in.now, in.stat)
                         ELSE OpenBsd_getDummyDiskActivity(use.inf, st, in.now, in.stat)
              IN Calling(Polled(act.inf, act.st, act.rv, res.outcome, "ok",
                                IF act.rv THEN "ok" ELSE "fail", act.source),
                         use.inf.object.getDiskActivity)
         ELSE Polled(use.inf, st, FALSE, res.outcome, "fail", "none", "none")
    ELSE Holding(Polled(res.inf, st, FALSE, res.outcome, "none", "none", "none"),
                 OpenBsd_setDevice_held(inf, path, compare, in.table))

(* ----------------------- sysdep_SOLARIS.c, second file: NetBSD, by handle *)

\* /dev/sd0a -> sd0, copied over the key without a terminator
NetBsd_parseDevice(path, key) ==
    LET base == File_basename(path)
        idx  == {i \in 1..Len(base) : isdigit(base[i])}
        i    == CHOOSE k \in idx : \A j \in idx : j <= k
    IN IF idx = {}
       THEN [ok |-> FALSE, key |-> key]
       ELSE [ok |-> TRUE, key |-> strncpy(key, base, i)]

\* the two sysctl calls answer together
NetBsd_getStatistics(st, now, stat) ==
    IF StatisticsExpired(st, now)
    THEN IF ~stat.devstat.exists
         THEN [st |-> st, rv |-> FALSE, source |-> "devstat"]
         ELSE [st |-> [st EXCEPT !.timestamp = now, !.disk = stat.devstat.content],
               rv |-> TRUE, source |-> "devstat"]
    ELSE [st |-> st, rv |-> TRUE, source |-> "none"]

NetBsd_getDummyDiskActivity(inf, st, now, stat) ==
    [inf |-> inf, st |-> st, rv |-> TRUE, source |-> "none"]

NetBsd_getBlockDiskActivity(inf, st, now, stat) ==
    LET got == NetBsd_getStatistics(st, now, stat)
        d   == FirstDisk(got.st.disk, inf.object.key)
    IN IF ~got.rv \/ d = 0
       THEN [inf |-> inf, st |-> got.st, rv |-> got.rv, source |-> got.source]
       ELSE LET k == got.st.disk[d] IN
            [inf |-> [inf EXCEPT !.read.bytes = Statistics_update(@, 0, k.rbytes),
                                 !.write.bytes = Statistics_update(@, 0, k.wbytes),
                                 !.read.operations = Statistics_update(@, 0, k.rxfer),
                                 !.write.operations = Statistics_update(@, 0, k.wxfer),
                                 !.runTime = Statistics_update(@, 0, k.time.sec * 1000
                                                                     + k.time.usec \div 1000)],
             st |-> got.st, rv |-> TRUE, source |-> got.source]

\* struct statvfs: the fragment size is stored as block size
NetBsd_getDiskUsage(inf, usage) ==
    IF ~usage.ok
    THEN Collected(inf, FALSE, "none")
    ELSE Collected([inf EXCEPT !.f_bsize = usage.f_frsize,
                               !.f_blocks = usage.f_blocks,
                               !.f_blocksfree = usage.f_bavail,
                               !.f_blocksfreetotal = usage.f_bfree,
                               !.f_files = usage.f_files,
                               !.f_filesfree = usage.f_ffree,
                               !._flags = inf.flags,
                               !.flags = usage.f_flag],
                   TRUE, "none")

NetBsd_setDevice(inf, path, compare, table) ==
    IF ~table.exists
    THEN Resolution([inf EXCEPT !.object.mounted = FALSE], FALSE, "unreadable")
    ELSE LET m == FirstCompared(table.content, compare, path) IN
         IF m = 0
         THEN Resolution([inf EXCEPT !.object.mounted = FALSE], FALSE, "notfound")
         ELSE LET mnt == table.content[m]
                  dev == NetBsd_parseDevice(mnt.mnt_fsname, inf.object.key)
              IN IF IS(mnt.mnt_type, S_ffs) /\ ~dev.ok
                 THEN Resolution([inf EXCEPT !.object.getDiskActivity = "_getBlockDiskActivity",
                                             !.object.mounted = FALSE], FALSE, "error")
                 ELSE Resolution([inf EXCEPT
                                     !.object.getDiskActivity = IF IS(mnt.mnt_type, S_ffs)
                                                                THEN "_getBlockDiskActivity"
                                                                ELSE "_getDummyDiskActivity",
                                     !.object.key = IF IS(mnt.mnt_type, S_ffs) THEN dev.key ELSE @,
                                     !.object.device = mnt.mnt_fsname,
                                     !.object.mountpoint = mnt.mnt_dir,
                                     !.object.type = mnt.mnt_type,
                                     !.object.getDiskUsage = "_getDiskUsage",
                                     !.object.mounted = TRUE],
                                 TRUE, "ok")

\* the buffers of getvfsstat entries _setDevice allocated and did not free: the
\* jump to error after a device name that cannot be parsed passes FREE(mnt)
NetBsd_setDevice_held(inf, path, compare, table) ==
    IF ~table.exists THEN 0
    ELSE LET m == FirstCompared(table.content, compare, path) IN
         IF m = 0 THEN 0
         ELSE IF /\ IS(table.content[m].mnt_type, S_ffs)
                 /\ ~NetBsd_parseDevice(table.content[m].mnt_fsname, inf.object.key).ok
         THEN 1
         ELSE 0

NetBsd_getDevice(inf, st, path, compare, in) ==
    LET res == NetBsd_setDevice(inf, path, compare, in.table) IN
    IF res.rv
    THEN LET use == NetBsd_getDiskUsage(res.inf, in.usage) IN
         IF use.rv
         THEN LET act == IF use.inf.object.getDiskActivity = "_getBlockDiskActivity"
                         THEN NetBsd_getBlockDiskActivity(use.inf, st, in.now, in.stat)
                         ELSE NetBsd_getDummyDiskActivity(use.inf, st, in.now, in.stat)
              IN Calling(Polled(act.inf, act.st, act.rv, res.outcome, "ok",
                                IF act.rv THEN "ok" ELSE "fail", act.source),
                         use.inf.object.getDiskActivity)
         ELSE Polled(use.inf, st, FALSE, res.outcome, "fail", "none", "none")
    ELSE Holding(Polled(res.inf, st, FALSE, res.outcome, "none", "none", "none"),
                 NetBsd_setDevice_held(inf, path, compare, in.table))

(* -------------------------------------- sysdep_HPUX.c: HP-UX, by handle *)

\* not implemented
HpUx_getDiskActivity(inf, stat) == Collected(inf, TRUE, "none")

\* the mount flags are not stored
HpUx_getDiskUsage(inf, usage) ==
    IF ~usage.ok
    THEN Collected(inf, FALSE, "none")
    ELSE Collected([inf EXCEPT !.f_bsize = usage.f_bsize,
                               !.f_blocks = usage.f_blocks,
                               !.f_blocksfree = usage.f_bavail,
                               !.f_blocksfreetotal = usage.f_bfree,
                               !.f_files = usage.f_files,
                               !.f_filesfree = usage.f_ffree],
                   TRUE, "none")

\* the handle is left as it was when /etc/mnttab cannot be opened
HpUx_setDevice(inf, path, compare, table) ==
    IF ~table.exists
    THEN Resolution(inf, FALSE, "unreadable")
    ELSE LET m == FirstCompared(table.content, compare, path) IN
         IF m = 0
         THEN Resolution([inf EXCEPT !.object.mounted = FALSE], FALSE, "notfound")
         ELSE LET mnt == table.content[m] IN
              Resolution([inf EXCEPT !.object.device = mnt.mnt_fsname,
                                     !.object.mountpoint = mnt.mnt_dir,
                                     !.object.type = mnt.mnt_type,
                                     !.object.getDiskUsage = "_getDiskUsage",
                                     !.object.getDiskActivity = "_getDiskActivity",
                                     !.object.mounted = TRUE],
                         TRUE, "ok")

HpUx_getDevice(inf, st, path, compare, in) ==
    LET res == HpUx_setDevice(inf, path, compare, in.table) IN
    IF res.rv
    THEN LET use == HpUx_getDiskUsage(res.inf, in.usage) IN
         IF use.rv
         THEN LET act == HpUx_getDiskActivity(use.inf, in.stat) IN
              Calling(Polled(act.inf, st, act.rv, res.outcome, "ok",
                             IF act.rv THEN "ok" ELSE "fail", act.source),
                      use.inf.object.getDiskActivity)
         ELSE Polled(use.inf, st, FALSE, res.outcome, "fail", "none", "none")
    ELSE Polled(res.inf, st, FALSE, res.outcome, "none", "none", "none")

(* ---------------- sysdep_HPUX.c, second file: Darwin, by mountpoint *)

\* the sessions _getDiskActivity created and did not release: url, disk,
\* wholeDisk, ioMedia and statistics are released, the session never is
DarwinVolume_getDiskActivity_held == 1

\* the disk is looked up from the volume path; hasIOStatistics records the result
DarwinVolume_getDiskActivity(inf, st, mountpoint, in) ==
    IF ~in.stat.iokit.exists
    THEN Activity([inf EXCEPT !.hasIOStatistics = FALSE], st, FALSE, "none", "fail", "iokit")
    ELSE LET d == in.stat.iokit.content IN
         Activity([inf EXCEPT !.read.bytes = Statistics_update(@, 0, d.bytesRead),
                              !.read.operations = Statistics_update(@, 0, d.reads),
                              !.read.time = Statistics_update(@, 0, NanoToMilli(d.totalReadTime)),
                              !.write.bytes = Statistics_update(@, 0, d.bytesWritten),
                              !.write.operations = Statistics_update(@, 0, d.writes),
                              !.write.time = Statistics_update(@, 0, NanoToMilli(d.totalWriteTime)),
                              !.hasIOStatistics = TRUE],
                  st, TRUE, "none", "ok", "iokit")

DarwinVolume_getDiskUsage(inf, usage) ==
    IF ~usage.ok
    THEN Collected(inf, FALSE, "none")
    ELSE Collected([inf EXCEPT !.f_bsize = usage.f_bsize,
                               !.f_blocks = usage.f_blocks,
                               !.f_blocksfree = usage.f_bavail,
                               !.f_blocksfreetotal = usage.f_bfree,
                               !.f_files = usage.f_files,
                               !.f_filesfree = usage.f_ffree,
                               !._flags = inf.flags,
                               !.flags = usage.f_flag],
                   TRUE, "none")

DarwinVolume_filesystem_usage_sysdep(inf, st, mountpoint, in) ==
    LET use == DarwinVolume_getDiskUsage(inf, in.usage) IN
    IF use.rv
    THEN LET act == DarwinVolume_getDiskActivity(use.inf, st, mountpoint, in) IN
         Holding(Polled(act.inf, act.statistics, act.rv, act.outcome, "ok", act.activity,
                        act.source),
                 DarwinVolume_getDiskActivity_held)
    ELSE Polled(use.inf, st, FALSE, "none", "fail", "none", "none")

(* ----------- sysdep_DARWIN.c, third file: Linux, by mountpoint, _PATH_MOUNTED *)

LinuxMounted_getCifsDiskActivity(device, inf, stat) ==
    IF ~stat.cifs.exists
    THEN Collected(inf, FALSE, "CIFSSTAT")
    ELSE Collected(CifsScan(inf, device.name, stat.cifs.content, 1, FALSE), TRUE, "CIFSSTAT")

LinuxMounted_getNfsDiskActivity(device, inf, stat) ==
    IF ~stat.nfs.exists
    THEN Collected(inf, FALSE, "NFSSTAT")
    ELSE Collected(NfsScan(inf, device.name, stat.nfs.content, 1, FALSE), TRUE, "NFSSTAT")

LinuxMounted_getBlockDiskActivity(device, inf, stat) ==
    IF ~stat.block.exists
    THEN Collected(inf, FALSE, "block")
    ELSE IF Len(stat.block.content) < 8
    THEN Collected(inf, FALSE, "block")
    ELSE LET f == stat.block.content IN
         Collected([inf EXCEPT !.read.time = Statistics_update(@, 0, f[4]),
                               !.read.bytes = Statistics_update(@, 0, f[3] * 512),
                               !.read.operations = Statistics_update(@, 0, f[1]),
                               !.write.time = Statistics_update(@, 0, f[8]),
                               !.write.bytes = Statistics_update(@, 0, f[7] * 512),
                               !.write.operations = Statistics_update(@, 0, f[5])],
                   TRUE, "block")

\* struct Device_T of this variant
LinuxMounted_Device(name, getDiskActivity) == [name |-> name, getDiskActivity |-> getDiskActivity]

LinuxMounted_getDevice(inf, mountpoint, table, layout) ==
    IF ~table.exists
    THEN [inf |-> inf, rv |-> FALSE, outcome |-> "unreadable",
          device |-> LinuxMounted_Device(S_empty, "NULL")]
    ELSE LET hits == {i \in 1..Len(table.content) :
                         IS(mountpoint, table.content[i].mnt_dir)
                         /\ ~IS(table.content[i].mnt_fsname, S_rootfs)}
         IN IF hits = {}
            THEN [inf |-> inf, rv |-> FALSE, outcome |-> "notfound",
                  device |-> LinuxMounted_Device(S_empty, "NULL")]
            ELSE LET mnt == table.content[CHOOSE i \in hits : \A j \in hits : i <= j]
                     i1  == [inf EXCEPT !.type = mnt.mnt_type]
                     rp  == realpath(layout, mnt.mnt_fsname)
                 IN IF IS(mnt.mnt_type, S_cifs)
                    THEN [inf |-> i1, rv |-> TRUE, outcome |-> "ok",
                          device |-> LinuxMounted_Device(Str_replaceChar(mnt.mnt_fsname, "/", "\\"),
                                                         "_getCifsDiskActivity")]
                    ELSE IF Str_startsWith(mnt.mnt_type, S_nfs)
                    THEN [inf |-> i1, rv |-> TRUE, outcome |-> "ok",
                          device |-> LinuxMounted_Device(mnt.mnt_fsname, "_getNfsDiskActivity")]
                    ELSE IF ~rp.ok
                    THEN [inf |-> i1, rv |-> FALSE,
                          outcome |-> IF rp.errno \in {ENOENT, ENOTDIR} THEN "virtual" ELSE "error",
                          device |-> LinuxMounted_Device(rp.path, "NULL")]
                    ELSE [inf |-> i1, rv |-> TRUE, outcome |-> "ok",
                          device |-> LinuxMounted_Device(File_basename(rp.path),
                                                         "_getBlockDiskActivity")]

LinuxMounted_getDiskActivity(inf, st, mountpoint, in) ==
    LET res == LinuxMounted_getDevice(inf, mountpoint, in.table, in.layout) IN
    IF res.rv
    THEN LET act == CASE res.device.getDiskActivity = "_getCifsDiskActivity" ->
                             LinuxMounted_getCifsDiskActivity(res.device, res.inf, in.stat)
                      [] res.device.getDiskActivity = "_getNfsDiskActivity" ->
                             LinuxMounted_getNfsDiskActivity(res.device, res.inf, in.stat)
                      [] OTHER ->
                             LinuxMounted_getBlockDiskActivity(res.device, res.inf, in.stat)
         IN Activity(act.inf, st, act.rv, res.outcome, IF act.rv THEN "ok" ELSE "fail", act.source)
    ELSE Activity(ResetCounters(res.inf), st, TRUE, res.outcome, "reset", "none")

LinuxMounted_getDiskUsage(inf, usage) ==
    IF ~usage.ok
    THEN Collected(inf, FALSE, "none")
    ELSE Collected([inf EXCEPT !.f_bsize = usage.f_frsize,
                               !.f_blocks = usage.f_blocks,
                               !.f_blocksfree = usage.f_bavail,
                               !.f_blocksfreetotal = usage.f_bfree,
                               !.f_files = usage.f_files,
                               !.f_filesfree = usage.f_ffree,
                               !._flags = inf.flags,
                               !.flags = usage.f_flag],
                   TRUE, "none")

LinuxMounted_filesystem_usage_sysdep(inf, st, mountpoint, in) ==
    LET use == LinuxMounted_getDiskUsage(inf, in.usage) IN
    IF use.rv
    THEN LET act == LinuxMounted_getDiskActivity(use.inf, st, mountpoint, in) IN
         Polled(act.inf, act.statistics, act.rv, act.outcome, "ok", act.activity, act.source)
    ELSE Polled(use.inf, st, FALSE, "none", "fail", "none", "none")

(* --------------- sysdep_DARWIN.c, fourth file: Linux, by mountpoint, /etc/mtab *)

\* struct Device_T of this variant
LinuxMtab_Device(name, type) == [name |-> name, type |-> type]

LinuxMtab_getDevice(mountpoint, table, layout) ==
    IF ~table.exists
    THEN [rv |-> FALSE, outcome |-> "unreadable", device |-> LinuxMtab_Device(S_empty, S_empty)]
    ELSE LET hits == {i \in 1..Len(table.content) :
                         IS(mountpoint, table.content[i].mnt_dir)
                         /\ ~IS(table.content[i].mnt_fsname, S_rootfs)}
         IN IF hits = {}
            THEN [rv |-> FALSE, outcome |-> "notfound", device |-> LinuxMtab_Device(S_empty, S_empty)]
            ELSE LET mnt == table.content[CHOOSE i \in hits : \A j \in hits : i <= j]
                     rp  == realpath(layout, mnt.mnt_fsname)
                 IN IF Str_startsWith(mnt.mnt_type, S_cifs) \/ Str_startsWith(mnt.mnt_type, S_nfs)
                    THEN [rv |-> TRUE, outcome |-> "ok",
                          device |-> LinuxMtab_Device(mnt.mnt_fsname, mnt.mnt_type)]
                    ELSE IF ~rp.ok
                    THEN [rv |-> FALSE,
                          outcome |-> IF rp.errno \in {ENOENT, ENOTDIR} THEN "virtual" ELSE "error",
                          device |-> LinuxMtab_Device(rp.path, mnt.mnt_type)]
                    ELSE [rv |-> TRUE, outcome |-> "ok",
                          device |-> LinuxMtab_Device(File_basename(rp.path), mnt.mnt_type)]

LinuxMtab_getDiskActivity(inf, st, mountpoint, in) ==
    LET res == LinuxMtab_getDevice(mountpoint, in.table, in.layout) IN
    IF res.rv
    THEN IF Str_startsWith(res.device.type, S_cifs)
         THEN Activity(inf, st, TRUE, res.outcome, "ok", "none")
         ELSE IF Str_startsWith(res.device.type, S_nfs)
         THEN IF ~in.stat.nfs.exists
              THEN Activity(inf, st, FALSE, res.outcome, "fail", "NFSSTAT")
              ELSE Activity(NfsScan(inf, res.device.name, in.stat.nfs.content, 1, FALSE),
                            st, TRUE, res.outcome, "ok", "NFSSTAT")
         ELSE IF ~in.stat.block.exists \/ Len(in.stat.block.content) < 8
         THEN Activity(inf, st, FALSE, res.outcome, "fail", "block")
         ELSE LET f == in.stat.block.content IN
              Activity([inf EXCEPT !.read.time = Statistics_update(@, 0, f[4]),
                                   !.read.bytes = Statistics_update(@, 0, f[3] * 512),
                                   !.read.operations = Statistics_update(@, 0, f[1]),
                                   !.write.time = Statistics_update(@, 0, f[8]),
                                   !.write.bytes = Statistics_update(@, 0, f[7] * 512),
                                   !.write.operations = Statistics_update(@, 0, f[5])],
                       st, TRUE, res.outcome, "ok", "block")
    ELSE Activity(ResetCounters(inf), st, TRUE, res.outcome, "reset", "none")

LinuxMtab_getDiskUsage(inf, usage) ==
    IF ~usage.ok
    THEN Collected(inf, FALSE, "none")
    ELSE Collected([inf EXCEPT !.f_bsize = usage.f_frsize,
                               !.f_blocks = usage.f_blocks,
                               !.f_blocksfree = usage.f_bavail,
                               !.f_blocksfreetotal = usage.f_bfree,
                               !.f_files = usage.f_files,
                               !.f_filesfree = usage.f_ffree,
                               !._flags = inf.flags,
                               !.flags = usage.f_flag],
                   TRUE, "none")

LinuxMtab_filesystem_usage_sysdep(inf, st, mountpoint, in) ==
    LET use == LinuxMtab_getDiskUsage(inf, in.usage) IN
    IF use.rv
    THEN LET act == LinuxMtab_getDiskActivity(use.inf, st, mountpoint, in) IN
         Polled(act.inf, act.statistics, act.rv, act.outcome, "ok", act.activity, act.source)
    ELSE Polled(use.inf, st, FALSE, "none", "fail", "none", "none")

(* ------------------------- unnamed/part_002: Linux, block devices only *)

\* the name is the base name of the mount source, not of the resolved path
LinuxBlock_getDevice(mountpoint, table, layout) ==
    IF ~table.exists
    THEN [rv |-> FALSE, outcome |-> "unreadable", filesystem |-> S_empty]
    ELSE LET m == FirstMounted(table.content, mountpoint) IN
         IF m = 0
         THEN [rv |-> FALSE, outcome |-> "notfound", filesystem |-> S_empty]
         ELSE LET mnt == table.content[m]
                  rp  == realpath(layout, mnt.mnt_fsname)
              IN IF ~rp.ok
                 THEN [rv |-> FALSE,
                       outcome |-> IF rp.errno \in {ENOENT, ENOTDIR} THEN "virtual" ELSE "error",
                       filesystem |-> rp.path]
                 ELSE [rv |-> TRUE, outcome |-> "ok", filesystem |-> File_basename(mnt.mnt_fsname)]

LinuxBlock_getDiskActivity(inf, st, mountpoint, in) ==
    LET res == LinuxBlock_getDevice(mountpoint, in.table, in.layout) IN
    IF res.rv
    THEN IF ~in.stat.block.exists \/ Len(in.stat.block.content) < 8
         THEN Activity(inf, st, FALSE, res.outcome, "fail", "block")
         ELSE LET f == in.stat.block.content IN
              Activity([inf EXCEPT !.read.time = Statistics_update(@, 0, f[4]),
                                   !.read.bytes = Statistics_update(@, 0, f[3] * 512),
                                   !.read.operations = Statistics_update(@, 0, f[1]),
                                   !.write.time = Statistics_update(@, 0, f[8]),
                                   !.write.bytes = Statistics_update(@, 0, f[7] * 512),
                                   !.write.operations = Statistics_update(@, 0, f[5])],
                       st, TRUE, res.outcome, "ok", "block")
    ELSE Activity(ResetCounters(inf), st, TRUE, res.outcome, "reset", "none")

LinuxBlock_getDiskUsage(inf, usage) ==
    IF ~usage.ok
    THEN Collected(inf, FALSE, "none")
    ELSE Collected([inf EXCEPT !.f_bsize = usage.f_frsize,
                               !.f_blocks = usage.f_blocks,
                               !.f_blocksfree = usage.f_bavail,
                               !.f_blocksfreetotal = usage.f_bfree,
                               !.f_files = usage.f_files,
                               !.f_filesfree = usage.f_ffree,
                               !._flags = inf.flags,
                               !.flags = usage.f_flag],
                   TRUE, "none")

LinuxBlock_filesystem_usage_sysdep(inf, st, mountpoint, in) ==
    LET use == LinuxBlock_getDiskUsage(inf, in.usage) IN
    IF use.rv
    THEN LET act == LinuxBlock_getDiskActivity(use.inf, st, mountpoint, in) IN
         Polled(act.inf, act.statistics, act.rv, act.outcome, "ok", act.activity, act.source)
    ELSE Polled(use.inf, st, FALSE, "none", "fail", "none", "none")

(* ------------------------------ sysdep_SOLARIS.c: Solaris, by mountpoint *)

\* struct Device_T of this variant
Solaris_Device(module, name, instance, partition) ==
    [module |-> module, name |-> name, instance |-> instance, partition |-> partition]

Solaris_NoDevice == Solaris_Device(S_empty, S_empty, 0, "")

\* %d of a one-digit number
DecimalString(n) == << <<"0", "1", "2", "3", "4", "5", "6", "7", "8", "9">>[n + 1] >>

\* mnt_minor of an extmnttab entry: one remote filesystem is mounted at most
ExtMinor(mnt) == 1

\* the part of a string before its first '/', the whole string when it has none
BeforeSlash(s) ==
    LET idx == {i \in 1..Len(s) : s[i] = "/"}
    IN IF idx = {} THEN s ELSE SubSeq(s, 1, (CHOOSE i \in idx : \A j \in idx : i <= j) - 1)

\* one line of /etc/path_to_inst
PathToInst(path, instance, module) == [path |-> path, instance |-> instance, module |-> module]

PathToInstGood == << PathToInst(<<"/", "s", "d", "@", "0">>, 0, S_sd) >>

\* the local device of a matching entry: strip "/devices" and the ":X" postfix
\* and look the path up in /etc/path_to_inst
Solaris_localDevice(special, layout, pti) ==
    LET rp == realpath(layout, special) IN
    IF ~rp.ok
    THEN [rv |-> FALSE, outcome |-> IF rp.errno \in {ENOENT, ENOTDIR} THEN "virtual" ELSE "error",
          device |-> Solaris_NoDevice]
    ELSE IF ~Str_startsWith(rp.path, S_devices)
    THEN [rv |-> FALSE, outcome |-> "error", device |-> Solaris_NoDevice]
    ELSE IF ~pti.exists
    THEN [rv |-> FALSE, outcome |-> "error", device |-> Solaris_NoDevice]
    ELSE LET speclen   == Len(rp.path)
             devlen    == Len(S_devices) - 1
             len       == speclen - devlen - 2
             partition == rp.path[speclen]
             stripped  == SubSeq(rp.path, devlen + 1, devlen + len)
             hits      == {i \in 1..Len(pti.content) : IS(pti.content[i].path, stripped)}
         IN IF hits = {}
            THEN [rv |-> FALSE, outcome |-> "error", device |-> Solaris_NoDevice]
            ELSE LET l == pti.content[CHOOSE i \in hits : \A j \in hits : i <= j] IN
                 [rv |-> TRUE, outcome |-> "ok",
                  device |-> Solaris_Device(l.module,
                                 IF IS(l.module, <<"c", "m", "d", "k">>)
                                 THEN l.module \o DecimalString(l.instance)
                                 ELSE l.module \o DecimalString(l.instance) \o <<",", partition>>,
                                 l.instance, partition)]

\* the streams _getDevice opened and did not close: the return after
\* /etc/path_to_inst could not be opened passes fclose(mntfd)
Solaris_getDevice_held(types, mountpoint, table, layout, pti) ==
    IF ~table.exists THEN 0
    ELSE LET m == FirstMounted(table.content, mountpoint) IN
         IF m = 0 THEN 0
         ELSE LET mnt == table.content[m]
                  rp  == realpath(layout, mnt.mnt_fsname)
              IN IF \E t \in types.prefix : Str_startsWith(mnt.mnt_type, t) THEN 0
                 ELSE IF \E t \in types.whole : IS(mnt.mnt_type, t) THEN 0
                 ELSE IF rp.ok /\ Str_startsWith(rp.path, S_devices) /\ ~pti.exists THEN 1
                 ELSE 0

\* the filesystem types that need no local device
Solaris_remoteTypes == [prefix |-> {S_nfs}, whole |-> {S_zfs}]

SolarisKstat_remoteTypes == [prefix |-> {S_nfs}, whole |-> {}]

Solaris_getDevice(inf, mountpoint, table, layout, pti) ==
    IF ~table.exists
    THEN [inf |-> inf, rv |-> FALSE, outcome |-> "unreadable", device |-> Solaris_NoDevice]
    ELSE LET m == FirstMounted(table.content, mountpoint) IN
         IF m = 0
         THEN [inf |-> inf, rv |-> FALSE, outcome |-> "notfound", device |-> Solaris_NoDevice]
         ELSE LET mnt == table.content[m]
                  i1  == [inf EXCEPT !.type = mnt.mnt_type]
                  loc == Solaris_localDevice(mnt.mnt_fsname, layout, pti)
              IN IF Str_startsWith(mnt.mnt_type, S_nfs)
                 THEN [inf |-> i1, rv |-> TRUE, outcome |-> "ok",
                       device |-> Solaris_Device(S_nfs, S_nfs \o DecimalString(ExtMinor(mnt)),
                                                 ExtMinor(mnt), "")]
                 ELSE IF IS(mnt.mnt_type, S_zfs)
                 THEN [inf |-> i1, rv |-> TRUE, outcome |-> "ok",
                       device |-> Solaris_Device(S_zfs, BeforeSlash(mnt.mnt_fsname), 0, "")]
                 ELSE [inf |-> i1, rv |-> loc.rv, outcome |-> loc.outcome, device |-> loc.device]

\* every matching entry of the kstat chain that can be read is fed to the counters
Solaris_readKstat(inf, device, chain) ==
    LET hits == {i \in 1..Len(chain) :
                    /\ chain[i].ks_type = "KSTAT_TYPE_IO"
                    /\ chain[i].ks_instance = device.instance
                    /\ IS(chain[i].ks_module, device.module)
                    /\ IS(chain[i].ks_name, device.name)
                    /\ chain[i].readable}
    IN IF hits = {} THEN inf
       ELSE LET kio == chain[CHOOSE i \in hits : \A j \in hits : j <= i] IN
            [inf EXCEPT !.read.bytes = Statistics_update(@, 0, kio.nread),
                        !.write.bytes = Statistics_update(@, 0, kio.nwritten),
                        !.read.operations = Statistics_update(@, 0, kio.reads),
                        !.write.operations = Statistics_update(@, 0, kio.writes),
                        !.waitTime = Statistics_update(@, 0, kio.wtime \div 1000000),
                        !.runTime = Statistics_update(@, 0, kio.rtime \div 1000000)]

Solaris_getDiskActivity(inf, st, mountpoint, in) ==
    LET res == Solaris_getDevice(inf, mountpoint, in.table, in.layout, in.pti) IN
    IF res.rv
    THEN IF IS(res.device.module, S_zfs)
         THEN IF ~in.stat.zpool.exists
              THEN Activity(res.inf, st, TRUE, res.outcome, "ok", "zpool")
              ELSE LET z == in.stat.zpool.content IN
                   Activity([res.inf EXCEPT !.read.bytes = Statistics_update(@, 0, z.bytesRead),
                                            !.write.bytes = Statistics_update(@, 0, z.bytesWritten),
                                            !.read.operations = Statistics_update(@, 0, z.opsRead),
                                            !.write.operations = Statistics_update(@, 0, z.opsWritten)],
                            st, TRUE, res.outcome, "ok", "zpool")
         ELSE IF ~in.stat.kstat.exists
         THEN Activity(res.inf, st, TRUE, res.outcome, "ok", "kstat")
         ELSE Activity(Solaris_readKstat(res.inf, res.device, in.stat.kstat.content),
                       st, TRUE, res.outcome, "ok", "kstat")
    ELSE Activity(ResetCounters(res.inf), st, TRUE, res.outcome, "reset", "none")

Solaris_getDiskUsage(inf, usage) ==
    IF ~usage.ok
    THEN Collected(inf, FALSE, "none")
    ELSE LET size == SizeFactor(usage) IN
         IF size = 0 /\ usage.ub.trap
         THEN Collected(inf, FALSE, "SIGFPE")
         ELSE Collected([inf EXCEPT !.f_bsize = usage.f_bsize,
                                    !.f_blocks = Quotient(usage.f_blocks, size, usage),
                                    !.f_blocksfree = Quotient(usage.f_bavail, size, usage),
                                    !.f_blocksfreetotal = Quotient(usage.f_bfree, size, usage),
                                    !.f_files = usage.f_files,
                                    !.f_filesfree = usage.f_ffree,
                                    !._flags = inf.flags,
                                    !.flags = usage.f_flag],
                        TRUE, "none")

Solaris_filesystem_usage_sysdep(inf, st, mountpoint, in) ==
    LET use == Solaris_getDiskUsage(inf, in.usage) IN
    IF use.rv
    THEN LET act == Solaris_getDiskActivity(use.inf, st, mountpoint, in) IN
         Holding(Polled(act.inf, act.statistics, act.rv, act.outcome, "ok", act.activity,
                        act.source),
                 Solaris_getDevice_held(Solaris_remoteTypes, mountpoint, in.table, in.layout,
                                        in.pti))
    ELSE Polled(use.inf, st, FALSE, "none", "fail", "none", "none")

(* ------------------------------- unnamed/part_000: Solaris, kstat only *)

SolarisKstat_getDevice(mountpoint, table, layout, pti) ==
    IF ~table.exists
    THEN [rv |-> FALSE, outcome |-> "unreadable", device |-> Solaris_NoDevice]
    ELSE LET m == FirstMounted(table.content, mountpoint) IN
         IF m = 0
         THEN [rv |-> FALSE, outcome |-> "notfound", device |-> Solaris_NoDevice]
         ELSE LET mnt == table.content[m]
                  loc == Solaris_localDevice(mnt.mnt_fsname, layout, pti)
              IN IF Str_startsWith(mnt.mnt_type, S_nfs)
                 THEN [rv |-> TRUE, outcome |-> "ok",
                       device |-> Solaris_Device(S_nfs, S_nfs \o DecimalString(ExtMinor(mnt)),
                                                 ExtMinor(mnt), "")]
                 ELSE [rv |-> loc.rv, outcome |-> loc.outcome, device |-> loc.device]

SolarisKstat_getDiskActivity(inf, st, mountpoint, in) ==
    LET res == SolarisKstat_getDevice(mountpoint, in.table, in.layout, in.pti) IN
    IF res.rv
    THEN IF ~in.stat.kstat.exists
         THEN Activity(inf, st, TRUE, res.outcome, "ok", "kstat")
         ELSE Activity(Solaris_readKstat(inf, res.device, in.stat.kstat.content),
                       st, TRUE, res.outcome, "ok", "kstat")
    ELSE Activity(ResetCounters(inf), st, TRUE, res.outcome, "reset", "none")

SolarisKstat_getDiskUsage(inf, usage) ==
    IF ~usage.ok
    THEN Collected(inf, FALSE, "none")
    ELSE LET size == SizeFactor(usage) IN
         IF size = 0 /\ usage.ub.trap
         THEN Collected(inf, FALSE, "SIGFPE")
         ELSE Collected([inf EXCEPT !.f_bsize = usage.f_bsize,
                                    !.f_blocks = Quotient(usage.f_blocks, size, usage),
                                    !.f_blocksfree = Quotient(usage.f_bavail, size, usage),
                                    !.f_blocksfreetotal = Quotient(usage.f_bfree, size, usage),
                                    !.f_files = usage.f_files,
                                    !.f_filesfree = usage.f_ffree,
                                    !._flags = inf.flags,
                                    !.flags = usage.f_flag],
                        TRUE, "none")

SolarisKstat_filesystem_usage_sysdep(inf, st, mountpoint, in) ==
    LET use == SolarisKstat_getDiskUsage(inf, in.usage) IN
    IF use.rv
    THEN LET act == SolarisKstat_getDiskActivity(use.inf, st, mountpoint, in) IN
         Holding(Polled(act.inf, act.statistics, act.rv, act.outcome, "ok", act.activity,
                        act.source),
                 Solaris_getDevice_held(SolarisKstat_remoteTypes, mountpoint, in.table,
                                        in.layout, in.pti))
    ELSE Polled(use.inf, st, FALSE, "none", "fail", "none", "none")

(* ------------------------------ unnamed/part_001: NetBSD, by mountpoint *)

\* sizeof(device) is the size of a pointer here: at most 7 characters are copied
NetBsdMp_parseDevice(path) ==
    LET base == File_basename(path)
        idx  == {i \in 1..Len(base) : isdigit(base[i])}
        i    == CHOOSE k \in idx : \A j \in idx : j <= k
    IN IF idx = {}
       THEN [ok |-> FALSE, device |-> S_empty]
       ELSE [ok |-> TRUE, device |-> SubSeq(base, 1, IF i < 8 THEN i ELSE 7)]

NetBsdMp_getDevice(mountpoint, table) ==
    IF ~table.exists
    THEN [rv |-> FALSE, outcome |-> "unreadable", device |-> S_empty]
    ELSE LET m == FirstMounted(table.content, mountpoint) IN
         IF m = 0
         THEN [rv |-> FALSE, outcome |-> "notfound", device |-> S_empty]
         ELSE LET sfs == table.content[m]
                  dev == NetBsdMp_parseDevice(sfs.mnt_fsname)
              IN IF IS(sfs.mnt_type, S_nfs)
                 THEN [rv |-> FALSE, outcome |-> "error", device |-> S_empty]
                 ELSE [rv |-> dev.ok, outcome |-> IF dev.ok THEN "ok" ELSE "error",
                       device |-> dev.device]

NetBsdMp_getStatistics(st, now, stat) ==
    IF StatisticsExpired(st, now)
    THEN IF ~stat.devstat.exists
         THEN [st |-> st, rv |-> FALSE, source |-> "devstat"]
         ELSE [st |-> [st EXCEPT !.timestamp = now, !.disk = stat.devstat.content],
               rv |-> TRUE, source |-> "devstat"]
    ELSE [st |-> st, rv |-> TRUE, source |-> "none"]

NetBsdMp_getDiskActivity(inf, st, mountpoint, in) ==
    LET res == NetBsdMp_getDevice(mountpoint, in.table) IN
    IF res.rv
    THEN LET got == NetBsdMp_getStatistics(st, in.now, in.stat)
             d   == FirstDisk(got.st.disk, res.device)
         IN IF ~got.rv
            THEN Activity(inf, got.st, FALSE, res.outcome, "fail", got.source)
            ELSE IF d = 0
            THEN Activity(inf, got.st, TRUE, res.outcome, "ok", got.source)
            ELSE LET k == got.st.disk[d] IN
                 Activity([inf EXCEPT !.read.bytes = Statistics_update(@, 0, k.rbytes),
                                      !.write.bytes = Statistics_update(@, 0, k.wbytes),
                                      !.read.operations = Statistics_update(@, 0, k.rxfer),
                                      !.write.operations = Statistics_update(@, 0, k.wxfer),
                                      !.runTime = Statistics_update(@, 0, k.time.sec * 1000
                                                                          + k.time.usec \div 1000)],
                          got.st, TRUE, res.outcome, "ok", got.source)
    ELSE Activity(ResetCounters(inf), st, TRUE, res.outcome, "reset", "none")

NetBsdMp_getDiskUsage(inf, usage) ==
    IF ~usage.ok
    THEN Collected(inf, FALSE, "none")
    ELSE Collected([inf EXCEPT !.f_bsize = usage.f_frsize,
                               !.f_blocks = usage.f_blocks,
                               !.f_blocksfree = usage.f_bavail,
                               !.f_blocksfreetotal = usage.f_bfree,
                               !.f_files = usage.f_files,
                               !.f_filesfree = usage.f_ffree,
                               !._flags = inf.flags,
                               !.flags = usage.f_flag],
                   TRUE, "none")

NetBsdMp_filesystem_usage_sysdep(inf, st, mountpoint, in) ==
    LET use == NetBsdMp_getDiskUsage(inf, in.usage) IN
    IF use.rv
    THEN LET act == NetBsdMp_getDiskActivity(use.inf, st, mountpoint, in) IN
         Polled(act.inf, act.statistics, act.rv, act.outcome, "ok", act.activity, act.source)
    ELSE Polled(use.inf, st, FALSE, "none", "fail", "none", "none")

(* ---------------------------------------------------------- the machine *)

MaxMounts == 1
MaxGeneration == 3
MaxHeld == 2

RunModes == { [daemon |-> TRUE, once |-> FALSE],
              [daemon |-> TRUE, once |-> TRUE],
              [daemon |-> FALSE, once |-> FALSE] }

Target(fn, path) == [fn |-> fn, path |-> path]

Targets == { Target("Filesystem_getByMountpoint", S_slash_m),
             Target("Filesystem_getByDevice", S_dev_dm0),
             Target("Filesystem_getByDevice", S_nfsdev) }

\* the kernel's answers to the resolution part of a cycle
ResolveAnswers ==
    [ openOk : BOOLEAN, pollOk : BOOLEAN, table : {File(mounts), NoFile}, layout : Layouts ]

\* the same with the device nodes always in place and the descriptor always opened
ResolveAnswersShared ==
    [ openOk : {TRUE}, pollOk : BOOLEAN, table : {File(mounts), NoFile}, layout : {LayoutNormal} ]

\* the kernel's answers to the collectors of a cycle
CollectAnswers ==
    { [usage |-> StatvfsRw, stat |-> StatGood],
      [usage |-> StatvfsRo, stat |-> StatGood],
      [usage |-> StatvfsFails, stat |-> StatGood],
      [usage |-> StatvfsRw, stat |-> StatShort],
      [usage |-> StatvfsRw, stat |-> StatMissing] }

CollectAnswersShared ==
    { [usage |-> StatvfsRw, stat |-> StatGood],
      [usage |-> StatvfsFails, stat |-> StatGood] }

TargetsShared == { Target("Filesystem_getByMountpoint", S_slash_m),
                   Target("Filesystem_getByDevice", S_nfsdev) }

MountableShared == { Mntent(S_nfsdev, S_slash_m, S_nfs4),
                     Mntent(S_tmpfs, S_slash_m, S_tmpfs) }

Answers(r, c) ==
    [ openOk |-> r.openOk, pollOk |-> r.pollOk, table |-> r.table, layout |-> r.layout,
      usage |-> c.usage, stat |-> c.stat ]

(* ------------------------------------------------ protocols/fail2ban.c *)

\* the bytes of the two frames, as numbers
ping ==
    << 128,   4, 149,  11,   0,   0,   0,   0,
         0,   0,   0,  93, 148, 140,   4, 112,
       105, 110, 103, 148,  97,  46,  60,  70,
        50,  66,  95,  69,  78,  68,  95,  67,
        79,  77,  77,  65,  78,  68,  62,   0 >>

pong ==
    << 128,   4, 149,  12,   0,   0,   0,   0,
         0,   0,   0,  75,   0, 140,   4, 112,
       111, 110, 103, 148, 134, 148,  46,  60,
        70,  50,  66,  95,  69,  78,  68,  95,
        67,  79,  77,  77,  65,  78,  68,  62 >>

\* variant: the comparison stops at the first zero byte, as strncmp does
memcmp_str(a, b, n) ==
    LET stop == {i \in 1..n : a[i] = 0 \/ b[i] = 0}
        m    == IF stop = {} THEN n ELSE CHOOSE i \in stop : \A j \in stop : i <= j
        diff == {i \in 1..m : a[i] # b[i]}
    IN IF diff = {} THEN 0
       ELSE LET i == CHOOSE k \in diff : \A j \in diff : k <= j
            IN IF a[i] < b[i] THEN -1 ELSE 1

\* memcmp(a, b, n): the sign of the first difference within n bytes
memcmp(a, b, n) ==
    LET diff == {i \in 1..n : a[i] # b[i]}
    IN IF diff = {} THEN 0
       ELSE LET i == CHOOSE k \in diff : \A j \in diff : k <= j
            IN IF a[i] < b[i] THEN -1 ELSE 1

\* what Socket_read leaves: the number of bytes read, -1 for an error, and the
\* bytes; the rest of the buffer is not initialised and never looked at
Received(bytes) == [n |-> Len(bytes), bytes |-> bytes]

ReadFails == [n |-> -1, bytes |-> <<>>]

\* the outcome of the check: the bytes handed to Socket_write, the number of
\* calls of Socket_read, and the exception thrown
Checked(written, reads, thrown) == [written |-> written, reads |-> reads, thrown |-> thrown]

\* write is what Socket_write returns and read what Socket_read leaves
check_fail2ban(write, read) ==
    IF write < 0
    THEN Checked(ping, 0, "IOException")
    ELSE IF read.n # Len(pong)
    THEN Checked(ping, 1, "IOException")
    ELSE IF memcmp(read.bytes, pong, Len(pong)) # 0
    THEN Checked(ping, 1, "ProtocolException")
    ELSE Checked(ping, 1, "none")

\* the process after its constructors: the notification descriptors it holds
\* open, the calls of open that gave it one, the handles its poll cycles
\* acquired and did not release, and whether it has exited
Started == [descriptors |-> 0, opened |-> 0, handles |-> 0, exited |-> FALSE]

\* no call made on its own yet
NoAnswer == [fn |-> "none"]

\* no protocol check made yet
NoProbe == Checked(<<>>, 0, "none")

\* nothing polled yet
NoCycle ==
    [ h |-> 0, seq |-> 0, rv |-> FALSE, outcome |-> "none", usage |-> "none",
      activity |-> "none", source |-> "none", collector |-> "none" ]

\* the last cycle: its filesystem, its return value and the calls it made
Observe(h, r) ==
    [ h |-> h, seq |-> 1 - cycle.seq, rv |-> r.rv, outcome |-> r.outcome, usage |-> r.usage,
      activity |-> r.activity, source |-> r.source,
      collector |-> IF "collector" \in DOMAIN r THEN r.collector ELSE "none" ]

InitOf(handles, platforms, modes, targets) ==
    /\ platform \in platforms
    /\ run \in modes
    /\ target \in [handles -> targets]
    /\ mounts = BaseMounts
    /\ statistics = IF platform = "LINUX" THEN Linux_constructor ELSE DiskTableZero
    /\ notify = FALSE
    /\ info = [h \in handles |-> InfoZero]
    /\ resolved = [h \in handles |-> "none"]
    /\ cycle = NoCycle
    /\ answer = NoAnswer
    /\ probe = NoProbe
    /\ process = Started

Init == InitOf({1}, {"LINUX"}, RunModes, Targets)

LinuxStep(h, r) ==
    /\ info' = [info EXCEPT ![h] = r.inf]
    /\ statistics' = r.statistics
    /\ notify' = r.notify
    /\ resolved' = [resolved EXCEPT ![h] = IF r.outcome = "cached" THEN @ ELSE r.outcome]
    /\ cycle' = Observe(h, r)
    /\ process' = [process EXCEPT !.descriptors = @ + r.opened, !.opened = @ + r.opened]
    /\ UNCHANGED <<platform, run, target, mounts, answer, probe>>

LinuxGetByMountpoint(h, RA, CA) ==
    /\ platform = "LINUX"
    /\ target[h].fn = "Filesystem_getByMountpoint"
    /\ \E r \in RA, c \in CA :
         LinuxStep(h, Linux_Filesystem_getByMountpoint(info[h], statistics, notify, run,
                                                       target[h].path, Answers(r, c)))

LinuxGetByDevice(h, RA, CA) ==
    /\ platform = "LINUX"
    /\ target[h].fn = "Filesystem_getByDevice"
    /\ \E r \in RA, c \in CA :
         LinuxStep(h, Linux_Filesystem_getByDevice(info[h], statistics, notify, run,
                                                   target[h].path, Answers(r, c)))

\* the descriptor reports an event for every change made while it is open
NotifyAfterChange == IF platform = "LINUX" /\ statistics.fd # -1 THEN TRUE ELSE notify

\* keeps the generation counter within the explored range
GenerationInRange == platform = "LINUX" => statistics.generation < MaxGeneration

Mount(e) ==
    /\ Len(mounts) < Len(BaseMounts) + MaxMounts
    /\ GenerationInRange
    /\ \A i \in 1..Len(mounts) : mounts[i] # e
    /\ mounts' = Append(mounts, e)
    /\ notify' = NotifyAfterChange
    /\ UNCHANGED <<platform, run, target, statistics, info, resolved, cycle, answer, probe, process>>

Unmount(i) ==
    /\ i > Len(BaseMounts)
    /\ i <= Len(mounts)
    /\ GenerationInRange
    /\ mounts' = SubSeq(mounts, 1, i - 1) \o SubSeq(mounts, i + 1, Len(mounts))
    /\ notify' = NotifyAfterChange
    /\ UNCHANGED <<platform, run, target, statistics, info, resolved, cycle, answer, probe, process>>

Next ==
    \/ \E h \in DOMAIN info : LinuxGetByMountpoint(h, ResolveAnswers, CollectAnswers)
    \/ \E h \in DOMAIN info : LinuxGetByDevice(h, ResolveAnswers, CollectAnswers)
    \/ \E e \in Mountable : Mount(e)
    \/ \E i \in 1..(Len(BaseMounts) + MaxMounts) : Unmount(i)

Spec == Init /\ [][Next]_vars

\* two filesystems sharing the generation counter and the descriptor
InitShared == InitOf({1, 2}, {"LINUX"}, {[daemon |-> TRUE, once |-> FALSE]}, TargetsShared)

NextShared ==
    \/ \E h \in DOMAIN info : LinuxGetByMountpoint(h, ResolveAnswersShared, CollectAnswersShared)
    \/ \E h \in DOMAIN info : LinuxGetByDevice(h, ResolveAnswersShared, CollectAnswersShared)
    \/ \E e \in MountableShared : Mount(e)
    \/ \E i \in 1..(Len(BaseMounts) + MaxMounts) : Unmount(i)

SpecShared == InitShared /\ [][NextShared]_vars

(* ------------------------------------------------- every implementation *)

HandlePlatforms == {"LINUX", "DARWIN", "OPENBSD", "NETBSD", "HPUX"}

MountpointPlatforms ==
    {"FREEBSD", "MNTTAB", "DARWIN_VOLUME", "LINUX_MOUNTED", "LINUX_MTAB", "LINUX_BLOCK",
     "SOLARIS", "SOLARIS_KSTAT", "NETBSD_MP"}

Platforms == HandlePlatforms \cup MountpointPlatforms

PlatformTargets(p) ==
    IF p \in HandlePlatforms
    THEN { Target("Filesystem_getByMountpoint", S_slash_m),
           Target("Filesystem_getByDevice", IF p = "LINUX" THEN S_dev_dm0 ELSE S_dev_sd0a) }
    ELSE { Target("filesystem_usage_sysdep", S_slash_m) }

MountablePlatforms == { Mntent(S_dev_sd0a, S_slash_m, S_ffs),
                        Mntent(S_dev_sd0a, S_slash_m, S_hfs),
                        Mntent(S_nfsdev, S_slash_m, S_nfs),
                        Mntent(S_tmpfs, S_slash_m, S_tmpfs),
                        Mntent(S_dev_vg, S_slash_m, S_ext4),
                        Mntent(S_dev_vg, S_slash_m, S_ffs) }

\* the kernel's answers to one poll cycle of any implementation
PlatformAnswer(table, layout, pti, now, usage, stat) ==
    [ openOk |-> TRUE, pollOk |-> TRUE, table |-> table, layout |-> layout, pti |-> pti,
      now |-> now, usage |-> usage, stat |-> stat ]

\* a cycle where everything answers, and the cycles where one thing does not
PlatformAnswers ==
    { PlatformAnswer(File(mounts), LayoutNormal, File(PathToInstGood), U64(2000), StatvfsRw, StatGood),
      PlatformAnswer(File(mounts), LayoutNormal, File(PathToInstGood), U64(2500), StatvfsRw, StatGood),
      PlatformAnswer(File(mounts), LayoutNormal, File(PathToInstGood), U64(2500), StatvfsRw, StatMissing),
      PlatformAnswer(File(mounts), LayoutNormal, File(PathToInstGood), U64(2000), StatvfsRo, StatGood),
      PlatformAnswer(File(mounts), LayoutNormal, File(PathToInstGood), U64(2000), StatvfsFails, StatGood),
      PlatformAnswer(File(mounts), LayoutNormal, File(PathToInstGood), U64(2000), StatvfsRw, StatMissing),
      PlatformAnswer(File(mounts), LayoutBroken, File(PathToInstGood), U64(2000), StatvfsRw, StatGood),
      PlatformAnswer(File(mounts), LayoutDevices, File(PathToInstGood), U64(2000), StatvfsRw, StatGood),
      PlatformAnswer(File(mounts), LayoutDevices, NoFile, U64(2000), StatvfsRw, StatGood),
      PlatformAnswer(NoFile, LayoutNormal, File(PathToInstGood), U64(2000), StatvfsRw, StatGood) }

Compare(fn) == IF fn = "Filesystem_getByMountpoint" THEN "_compareMountpoint" ELSE "_compareDevice"

InitPlatforms ==
    /\ platform \in Platforms
    /\ run = [daemon |-> TRUE, once |-> FALSE]
    /\ target \in [{1} -> PlatformTargets(platform)]
    /\ mounts = BaseMounts
    /\ statistics = IF platform = "LINUX" THEN Linux_constructor ELSE DiskTableZero
    /\ notify = FALSE
    /\ info = [h \in {1} |-> InfoZero]
    /\ resolved = [h \in {1} |-> "none"]
    /\ cycle = NoCycle
    /\ answer = NoAnswer
    /\ probe = NoProbe
    /\ process = Started

PlatformStep(h, r) ==
    /\ info' = [info EXCEPT ![h] = r.inf]
    /\ statistics' = r.statistics
    /\ resolved' = [resolved EXCEPT ![h] = r.outcome]
    /\ cycle' = Observe(h, r)
    /\ process.handles + r.held <= MaxHeld
    /\ process' = [process EXCEPT !.handles = @ + r.held]
    /\ UNCHANGED <<platform, run, target, mounts, notify, answer, probe>>

LinuxGet(h) ==
    /\ platform = "LINUX"
    /\ \E in \in PlatformAnswers :
         LinuxStep(h, Linux_getDevice(info[h], statistics, notify, run, target[h].path,
                                      Compare(target[h].fn), in))

DarwinGet(h) ==
    /\ platform = "DARWIN"
    /\ \E in \in PlatformAnswers :
         PlatformStep(h, Darwin_getDevice(info[h], statistics, target[h].path,
                                          Compare(target[h].fn), in))

OpenBsdGet(h) ==
    /\ platform = "OPENBSD"
    /\ \E in \in PlatformAnswers :
         PlatformStep(h, OpenBsd_getDevice(info[h], statistics, target[h].path,
                                           Compare(target[h].fn), in))

NetBsdGet(h) ==
    /\ platform = "NETBSD"
    /\ \E in \in PlatformAnswers :
         PlatformStep(h, NetBsd_getDevice(info[h], statistics, target[h].path,
                                          Compare(target[h].fn), in))

HpUxGet(h) ==
    /\ platform = "HPUX"
    /\ \E in \in PlatformAnswers :
         PlatformStep(h, HpUx_getDevice(info[h], statistics, target[h].path,
                                        Compare(target[h].fn), in))

FreeBsdUsage(h) ==
    /\ platform = "FREEBSD"
    /\ \E in \in PlatformAnswers :
         PlatformStep(h, FreeBsd_filesystem_usage_sysdep(info[h], statistics,
                                                         target[h].path, in))

MnttabUsage(h) ==
    /\ platform = "MNTTAB"
    /\ \E in \in PlatformAnswers :
         PlatformStep(h, Mnttab_filesystem_usage_sysdep(info[h], statistics,
                                                        target[h].path, in))

DarwinVolumeUsage(h) ==
    /\ platform = "DARWIN_VOLUME"
    /\ \E in \in PlatformAnswers :
         PlatformStep(h, DarwinVolume_filesystem_usage_sysdep(info[h], statistics,
                                                              target[h].path, in))

LinuxMountedUsage(h) ==
    /\ platform = "LINUX_MOUNTED"
    /\ \E in \in PlatformAnswers :
         PlatformStep(h, LinuxMounted_filesystem_usage_sysdep(info[h], statistics,
                                                              target[h].path, in))

LinuxMtabUsage(h) ==
    /\ platform = "LINUX_MTAB"
    /\ \E in \in PlatformAnswers :
         PlatformStep(h, LinuxMtab_filesystem_usage_sysdep(info[h], statistics,
                                                           target[h].path, in))

LinuxBlockUsage(h) ==
    /\ platform = "LINUX_BLOCK"
    /\ \E in \in PlatformAnswers :
         PlatformStep(h, LinuxBlock_filesystem_usage_sysdep(info[h], statistics,
                                                            target[h].path, in))

SolarisUsage(h) ==
    /\ platform = "SOLARIS"
    /\ \E in \in PlatformAnswers :
         PlatformStep(h, Solaris_filesystem_usage_sysdep(info[h], statistics,
                                                         target[h].path, in))

SolarisKstatUsage(h) ==
    /\ platform = "SOLARIS_KSTAT"
    /\ \E in \in PlatformAnswers :
         PlatformStep(h, SolarisKstat_filesystem_usage_sysdep(info[h], statistics,
                                                              target[h].path, in))

NetBsdMpUsage(h) ==
    /\ platform = "NETBSD_MP"
    /\ \E in \in PlatformAnswers :
         PlatformStep(h, NetBsdMp_filesystem_usage_sysdep(info[h], statistics,
                                                          target[h].path, in))

NextPlatforms ==
    \/ \E h \in DOMAIN info : LinuxGet(h)
    \/ \E h \in DOMAIN info : DarwinGet(h)
    \/ \E h \in DOMAIN info : OpenBsdGet(h)
    \/ \E h \in DOMAIN info : NetBsdGet(h)
    \/ \E h \in DOMAIN info : HpUxGet(h)
    \/ \E h \in DOMAIN info : FreeBsdUsage(h)
    \/ \E h \in DOMAIN info : MnttabUsage(h)
    \/ \E h \in DOMAIN info : DarwinVolumeUsage(h)
    \/ \E h \in DOMAIN info : LinuxMountedUsage(h)
    \/ \E h \in DOMAIN info : LinuxMtabUsage(h)
    \/ \E h \in DOMAIN info : LinuxBlockUsage(h)
    \/ \E h \in DOMAIN info : SolarisUsage(h)
    \/ \E h \in DOMAIN info : SolarisKstatUsage(h)
    \/ \E h \in DOMAIN info : NetBsdMpUsage(h)
    \/ \E e \in MountablePlatforms : Mount(e)
    \/ \E i \in 1..(Len(BaseMounts) + MaxMounts) : Unmount(i)

SpecPlatforms == InitPlatforms /\ [][NextPlatforms]_vars

(* ------------------------------------------------------------ properties *)

\* the six activity counters are in the reset state
CountersReset(inf) ==
    /\ inf.read.bytes = NoData /\ inf.read.operations = NoData /\ inf.read.time = NoData
    /\ inf.write.bytes = NoData /\ inf.write.operations = NoData /\ inf.write.time = NoData

\* a step that is a poll cycle: the mount table is the environment's only change
IsCycle == mounts' = mounts

\* the object fields a resolution derives
Derived(inf) ==
    << inf.object.key, inf.object.getDiskActivity, inf.object.device, inf.object.mountpoint,
       inf.object.type, inf.object.generation, inf.object.mounted >>

\* C1 (as stated; refuted): on every platform a poll cycle whose target has no
\* entry in the mount table returns false and leaves all six activity counters
\* in the reset state.
C1_NotFoundFailsAndResets ==
    cycle.outcome = "notfound" => (~cycle.rv /\ CountersReset(info[cycle.h]))

\* C2 (amended): on Linux a poll cycle calls _setDevice if and only if the
\* handle's generation differs from the process-wide generation after the poll
\* of the descriptor, or no descriptor is open.
C2_ResolvesIffStale ==
    [][IsCycle =>
          ((cycle'.outcome # "cached")
             <=> (\/ info[cycle'.h].object.generation # statistics'.generation
                  \/ statistics'.fd = -1))]_vars

\* C2 reached: a handle whose generation is current is reused with the descriptor open
C2_Reached ==
    /\ cycle.outcome = "cached"
    /\ statistics.fd # -1
    /\ info[cycle.h].object.generation = statistics.generation

\* C2 (as stated; refuted): a poll cycle calls _setDevice if and only if the
\* handle's generation differs from the process-wide generation.
C2_AsStated ==
    [][IsCycle =>
          ((cycle'.outcome # "cached")
             <=> info[cycle'.h].object.generation # statistics'.generation)]_vars

\* C3: the process-wide generation never decreases, changes only by +1 and only
\* in a cycle whose poll of the open descriptor reports the pending change, and
\* every handle's generation is at most the process-wide generation.
C3_GenerationMonotone ==
    /\ [](\A h \in DOMAIN info : info[h].object.generation <= statistics.generation)
    /\ [][\/ statistics'.generation = statistics.generation
          \/ /\ statistics'.generation = statistics.generation + 1
             /\ IsCycle
             /\ notify /\ ~notify'
             /\ statistics'.fd # -1]_vars

\* C3 reached: the generation has advanced and a handle lags behind it
C3_Reached ==
    /\ statistics.generation > 1
    /\ \E h \in DOMAIN info :
          /\ info[h].object.generation > 0
          /\ info[h].object.generation < statistics.generation

C5_EveryHandleReResolved ==
    [][(/\ IsCycle
        /\ resolved[cycle'.h] = "ok"
        /\ info[cycle'.h].object.generation # statistics'.generation) =>
          /\ cycle'.outcome \in {"ok", "error", "notfound"}
          /\ cycle'.activity # "none" =>
                info'[cycle'.h].object.generation = statistics'.generation]_vars

\* C6: two calls in a row for the same target, with the same mount table and the
\* same kernel answers, leave the handle with the same key, activity strategy,
\* device, mountpoint, type, generation and mounted flag after the second call
\* as after the first.
C6_Idempotent ==
    \A h \in DOMAIN info : \A r \in ResolveAnswers : \A c \in CollectAnswers :
        LET first  == Linux_getDevice(info[h], statistics, notify, run, target[h].path,
                                      Compare(target[h].fn), Answers(r, c))
            second == Linux_getDevice(first.inf, first.statistics, first.notify, run,
                                      target[h].path, Compare(target[h].fn), Answers(r, c))
        IN Derived(second.inf) = Derived(first.inf)

\* C6 reached: a cycle has reused the cached resolution of a mounted filesystem
C6_Reached ==
    /\ cycle.outcome = "cached"
    /\ info[cycle.h].object.mounted
    /\ info[cycle.h].object.getDiskActivity = "_getBlockDiskActivity"

\* C7 (as stated; refuted): a cycle that must resolve the handle and cannot open
\* the mount source returns false with mounted false, runs neither collector
\* and leaves the counters reset.
C7_UnreadableIsUnmounted ==
    cycle.outcome = "unreadable" =>
        /\ ~cycle.rv
        /\ ~info[cycle.h].object.mounted
        /\ cycle.usage = "none"
        /\ cycle.activity = "none"
        /\ CountersReset(info[cycle.h])

\* C8: on every platform the activity collector runs only after the usage
\* collector succeeded; a cycle whose usage collection fails returns false,
\* runs no activity collector, opens no statistics source and leaves the
\* activity counters and the cached statistics as they were.
C8_UsageFailureShortCircuits ==
    [][IsCycle =>
          /\ cycle'.activity # "none" => cycle'.usage = "ok"
          /\ cycle'.usage = "fail" =>
                /\ ~cycle'.rv
                /\ cycle'.activity = "none"
                /\ cycle'.source = "none"
                /\ info'[cycle'.h].read = info[cycle'.h].read
                /\ info'[cycle'.h].write = info[cycle'.h].write
                /\ info'[cycle'.h].runTime = info[cycle'.h].runTime
                /\ info'[cycle'.h].waitTime = info[cycle'.h].waitTime
                /\ info'[cycle'.h].hasIOStatistics = info[cycle'.h].hasIOStatistics
                /\ platform # "LINUX" => statistics' = statistics]_vars

\* C8 reached: usage collection failed in a cycle of a filesystem with counters collected before
C8_Reached ==
    /\ cycle.usage = "fail"
    /\ info[cycle.h].read.bytes # NoData
    /\ platform = "FREEBSD"

\* the usage collector of the implementation
UsageCollector(p, inf, usage) ==
    CASE p = "LINUX" -> Linux_getDiskUsage(inf, usage)
      [] p = "DARWIN" -> Darwin_getDiskUsage(inf, usage)
      [] p = "OPENBSD" -> OpenBsd_getDiskUsage(inf, usage)
      [] p = "NETBSD" -> NetBsd_getDiskUsage(inf, usage)
      [] p = "HPUX" -> HpUx_getDiskUsage(inf, usage)
      [] p = "FREEBSD" -> FreeBsd_getDiskUsage(inf, usage)
      [] p = "MNTTAB" -> Mnttab_getDiskUsage(inf, usage)
      [] p = "DARWIN_VOLUME" -> DarwinVolume_getDiskUsage(inf, usage)
      [] p = "LINUX_MOUNTED" -> LinuxMounted_getDiskUsage(inf, usage)
      [] p = "LINUX_MTAB" -> LinuxMtab_getDiskUsage(inf, usage)
      [] p = "LINUX_BLOCK" -> LinuxBlock_getDiskUsage(inf, usage)
      [] p = "SOLARIS" -> Solaris_getDiskUsage(inf, usage)
      [] p = "SOLARIS_KSTAT" -> SolarisKstat_getDiskUsage(inf, usage)
      [] p = "NETBSD_MP" -> NetBsdMp_getDiskUsage(inf, usage)

\* C9 (as stated; refuted): every platform's usage collector, when it succeeds,
\* moves the flags held before the call to _flags and stores the mount flags
\* the kernel reports in flags; when it fails it changes nothing.
C9_FlagsShifted ==
    \A h \in DOMAIN info : \A usage \in {StatvfsRw, StatvfsRo, StatvfsFails} :
        LET got == UsageCollector(platform, info[h], usage) IN
        IF usage.ok
        THEN got.rv /\ got.inf._flags = info[h].flags /\ got.inf.flags = usage.f_flag
        ELSE ~got.rv /\ got.inf = info[h]

\* C10 (as stated; refuted): after a resolution that failed because the mount
\* source was unreadable or realpath failed with an error other than ENOENT,
\* the next cycle of the handle attempts the resolution again.
C10_FailureNotRemembered ==
    [][(IsCycle /\ resolved[cycle'.h] \in {"unreadable", "error"}) =>
          cycle'.outcome # "cached"]_vars

\* C11 (as stated; refuted): a matched entry that is neither NFS nor CIFS and
\* whose device path realpath rejects with ENOENT or ENOTDIR is resolved as
\* mounted with the no-op activity collector, and the cycle returns what usage
\* collection returns. The device name tmpfs is no path in any layout.
C11_VirtualIsSuccess ==
    (cycle.outcome \in {"ok", "error"} /\ IS(info[cycle.h].object.type, S_tmpfs)) =>
        /\ cycle.outcome = "ok"
        /\ info[cycle.h].object.mounted
        /\ info[cycle.h].object.getDiskActivity = "_getDummyDiskActivity"
        /\ cycle.rv = (cycle.usage = "ok")

(* ------------------------------------------------- resolution by device *)

TargetsDevice == { Target("Filesystem_getByDevice", S_dev_vg),
                   Target("Filesystem_getByDevice", S_dev_dm0),
                   Target("Filesystem_getByDevice", S_nfsdev) }

MountableDevice == { Mntent(S_dev_dm0, S_slash_m, S_ext4),
                     Mntent(S_dev_vg, S_slash_m, S_ext4),
                     Mntent(S_nfsdev, S_slash_m, S_nfs4) }

\* the device nodes and the symlink are in place
ResolveAnswersDevice ==
    [ openOk : BOOLEAN, pollOk : BOOLEAN, table : {File(mounts), NoFile}, layout : {LayoutNormal} ]

InitDevice == InitOf({1}, {"LINUX"}, RunModes, TargetsDevice)

NextDevice ==
    \/ \E h \in DOMAIN info : LinuxGetByDevice(h, ResolveAnswersDevice, CollectAnswersShared)
    \/ \E e \in MountableDevice : Mount(e)
    \/ \E i \in 1..(Len(BaseMounts) + MaxMounts) : Unmount(i)

SpecDevice == InitDevice /\ [][NextDevice]_vars

\* the match as claimed: equal strings, or equal after realpath of both sides
ClaimedDeviceMatch(device, mnt, layout) ==
    \/ IS(device, mnt.mnt_fsname)
    \/ /\ realpath(layout, device).ok
       /\ realpath(layout, mnt.mnt_fsname).ok
       /\ IS(realpath(layout, device).path, realpath(layout, mnt.mnt_fsname).path)

\* C12 (as stated; refuted): a resolution by device that reads the mount table
\* finds an entry exactly when some entry's device equals the target or the
\* realpath of the entry's device equals the realpath of the target.
C12_BothSidesCanonical ==
    [][(IsCycle /\ cycle'.outcome \in {"ok", "error", "notfound"}) =>
          ((cycle'.outcome # "notfound")
             <=> \E i \in 1..Len(mounts) :
                    ClaimedDeviceMatch(target[cycle'.h].path, mounts[i], LayoutNormal))]_vars

(* ------------------------------------- several entries for one target *)

MaxStacked == 2

MountableStacked == { Mntent(S_nfsdev, S_slash_m, S_nfs),
                      Mntent(S_nfsdev, S_slash_m, S_nfs4),
                      Mntent(S_cifsdev, S_slash_m, S_cifs),
                      Mntent(S_cifsdev, S_slash_m, S_smbfs),
                      Mntent(S_tmpfs, S_slash_m, S_tmpfs),
                      Mntent(S_dev_vg, S_slash_m, S_ext4),
                      Mntent(S_dev_dm0, S_slash_m, S_ext4) }

InitStacked ==
    /\ platform \in {"LINUX", "SOLARIS"}
    /\ run = [daemon |-> FALSE, once |-> FALSE]
    /\ target \in [{1} -> PlatformTargets(platform)]
    /\ mounts = BaseMounts
    /\ statistics = IF platform = "LINUX" THEN Linux_constructor ELSE DiskTableZero
    /\ notify = FALSE
    /\ info = [h \in {1} |-> InfoZero]
    /\ resolved = [h \in {1} |-> "none"]
    /\ cycle = NoCycle
    /\ answer = NoAnswer
    /\ probe = NoProbe
    /\ process = Started

\* a filesystem mounted over another one is appended to the table
MountStacked(e) ==
    /\ Len(mounts) < Len(BaseMounts) + MaxStacked
    /\ GenerationInRange
    /\ \A i \in 1..Len(mounts) : mounts[i] # e
    /\ mounts' = Append(mounts, e)
    /\ notify' = NotifyAfterChange
    /\ UNCHANGED <<platform, run, target, statistics, info, resolved, cycle, answer, probe, process>>

NextStacked ==
    \/ \E h \in DOMAIN info : LinuxGet(h)
    \/ \E h \in DOMAIN info : SolarisUsage(h)
    \/ \E e \in MountableStacked : MountStacked(e)
    \/ \E i \in 1..(Len(BaseMounts) + MaxStacked) : Unmount(i)

SpecStacked == InitStacked /\ [][NextStacked]_vars

\* the entry at index m is the one the handle was resolved from, and the
\* comparison accepts no entry before it under the layout
ResolvedFromFirst(inf, path, compare, m, layout) ==
    /\ IS(inf.object.device, mounts[m].mnt_fsname)
    /\ IS(inf.object.mountpoint, mounts[m].mnt_dir)
    /\ IS(inf.object.type, mounts[m].mnt_type)
    /\ Linux_compare(compare, path, mounts[m], layout)
    /\ \A j \in 1..(m - 1) : ~Linux_compare(compare, path, mounts[j], layout)

C14_NfsFirst ==
    /\ (/\ platform = "LINUX"
        /\ cycle.outcome \in {"ok", "error"}
        /\ Str_startsWith(info[cycle.h].object.type, S_nfs)) =>
            /\ cycle.outcome = "ok"
            /\ info[cycle.h].object.mounted
            /\ info[cycle.h].object.getDiskActivity = "_getNfsDiskActivity"
    /\ (/\ platform = "SOLARIS"
        /\ cycle.outcome \in {"ok", "virtual", "error"}
        /\ Str_startsWith(info[cycle.h].type, S_nfs)) =>
            /\ cycle.outcome = "ok"
            /\ cycle.rv
            /\ cycle.source = "kstat"

\* C14 reached: an nfs4 export was resolved and its statistics were read by
\* the NFS collector
C14_Reached ==
    /\ platform = "LINUX"
    /\ cycle.outcome = "ok"
    /\ IS(info[cycle.h].object.type, S_nfs4)
    /\ cycle.source = "NFSSTAT"
    /\ info[cycle.h].read.operations # NoData

(* ------------------------------------------------------ C15: SMB shares *)

\* C15: a resolution of the current Linux variant whose matched entry has the
\* type "cifs" or "smbfs" pins the CIFS collector, and the key is the device
\* string with every '/' replaced by '\', so that it holds no '/'.
C15_CifsOrSmbfs ==
    (/\ platform = "LINUX"
     /\ cycle.outcome \in {"ok", "error"}
     /\ \/ IS(info[cycle.h].object.type, S_cifs)
        \/ IS(info[cycle.h].object.type, S_smbfs)) =>
        /\ info[cycle.h].object.getDiskActivity = "_getCifsDiskActivity"
        /\ info[cycle.h].object.key = Str_replaceChar(info[cycle.h].object.device, "/", "\\")
        /\ \A i \in 1..Len(info[cycle.h].object.key) : info[cycle.h].object.key[i] # "/"

(* ----------------------------------- C16: the block collector on its own *)

\* sector counts a statistics file can hold
SectorCounts == {U64_zero, U64(1), U64(2), U64(4096), U64_2p55m1, U64_2p55, U64_max}

\* the eleven numbers of /sys/class/block/<key>/stat
BlockLine(readOperations, readSectors, writeSectors) ==
    <<readOperations, U64(0), readSectors, U64(7), U64(4), U64(0), writeSectors, U64(9),
      U64(0), U64(0), U64(0)>>

\* complete files, files cut off after any number of fields, and no file
BlockFiles ==
    { File(BlockLine(o, r, w)) : o \in {U64(3), U64_max}, r \in SectorCounts, w \in SectorCounts }
    \cup { File(SubSeq(BlockLine(U64(3), U64(2), U64(6)), 1, n)) : n \in 0..10 }
    \cup { NoFile }

\* the "no data" state of a counter held as limbs
NoData64 == <<>>

Counters64 == [bytes |-> NoData64, operations |-> NoData64, time |-> NoData64]

\* the handle of the root filesystem after its resolution
InitBlock ==
    /\ platform = "LINUX"
    /\ run = [daemon |-> TRUE, once |-> FALSE]
    /\ target = [h \in {1} |-> Target("Filesystem_getByDevice", S_dev_sda1)]
    /\ mounts = BaseMounts
    /\ statistics = Linux_constructor
    /\ notify = FALSE
    /\ info = [h \in {1} |->
                 [Linux_setDevice(InfoZero, Linux_constructor, S_dev_sda1, "_compareDevice",
                                  File(BaseMounts), LayoutNormal).inf
                     EXCEPT !.read = Counters64, !.write = Counters64]]
    /\ resolved = [h \in {1} |-> "ok"]
    /\ cycle = NoCycle
    /\ answer = NoAnswer
    /\ probe = NoProbe
    /\ process = Started

\* inf->priv.filesystem.object.getDiskActivity(inf) of a block device
Linux_BlockCollect(h) ==
    /\ info[h].object.getDiskActivity = "_getBlockDiskActivity"
    /\ \E file \in BlockFiles :
         LET r == Linux_getBlockDiskActivity64(info[h], [block |-> file]) IN
         /\ info' = [info EXCEPT ![h] = r.inf]
         /\ answer' = [fn |-> "_getBlockDiskActivity", block |-> file]
         /\ cycle' = Observe(h, [rv |-> r.rv, outcome |-> "cached", usage |-> "none",
                                 activity |-> IF r.rv THEN "ok" ELSE "fail",
                                 source |-> r.source])
    /\ UNCHANGED <<platform, run, target, mounts, statistics, notify, resolved, probe, process>>

NextBlock == \E h \in DOMAIN info : Linux_BlockCollect(h)

SpecBlock == InitBlock /\ [][NextBlock]_vars

\* C16: a call of the block collector that parses its six values returns true
\* and feeds the read and the write byte counter with the sector count times
\* 512, nothing carried out of the 64 bits; a call that parses fewer returns
\* false and leaves every counter as it was.
C16_SectorsTimes512 ==
    [][answer'.fn = "_getBlockDiskActivity" =>
          IF answer'.block.exists /\ Len(answer'.block.content) >= 8
          THEN /\ cycle'.rv
               /\ U64_mulCarry(answer'.block.content[3], 512)
                    = [limbs |-> info'[cycle'.h].read.bytes, carry |-> 0]
               /\ U64_mulCarry(answer'.block.content[7], 512)
                    = [limbs |-> info'[cycle'.h].write.bytes, carry |-> 0]
          ELSE /\ ~cycle'.rv
               /\ info'[cycle'.h] = info[cycle'.h]]_vars

(* ------------------------------ C17: the usage collector on its own *)

\* the implementations that divide the block counts by f_bsize / f_frsize
ScalingPlatforms == {"SOLARIS", "MNTTAB", "SOLARIS_KSTAT"}

BlockSizes == {0, 512, 1024, 4096}

\* total, available and free blocks, in fragments
RawCounts == { <<80, 40, 44>>, <<7, 3, 5>> }

\* what statvfs can answer, and what the build does where the C is undefined
StatvfsInputs ==
    { StatvfsOn(Statvfs(b, f, c[1], c[2], c[3], 10, 5, 0), ub) :
        b \in BlockSizes, f \in BlockSizes, c \in RawCounts,
        ub \in {Undefined(TRUE, 0), Undefined(FALSE, 0), Undefined(FALSE, 9)} }
    \cup { StatvfsFails }

InitUsage ==
    /\ platform \in ScalingPlatforms
    /\ run = [daemon |-> TRUE, once |-> FALSE]
    /\ target \in [{1} -> PlatformTargets(platform)]
    /\ mounts = BaseMounts
    /\ statistics = DiskTableZero
    /\ notify = FALSE
    /\ info = [h \in {1} |-> InfoZero]
    /\ resolved = [h \in {1} |-> "none"]
    /\ cycle = NoCycle
    /\ answer = NoAnswer
    /\ probe = NoProbe
    /\ process = Started

\* _getDiskUsage(mountpoint, inf); a call killed by the trap is recorded as a
\* call that gave nothing, with the signal as its source
UsageCollect(h) ==
    /\ \E usage \in StatvfsInputs :
         LET r == UsageCollector(platform, info[h], usage) IN
         /\ info' = [info EXCEPT ![h] = r.inf]
         /\ answer' = [fn |-> "_getDiskUsage", usage |-> usage]
         /\ cycle' = Observe(h, [rv |-> r.rv, outcome |-> "none",
                                 usage |-> IF r.rv THEN "ok" ELSE "fail",
                                 activity |-> "none", source |-> r.source])
    /\ UNCHANGED <<platform, run, target, mounts, statistics, notify, resolved, probe, process>>

NextUsage == \E h \in DOMAIN info : UsageCollect(h)

SpecUsage == InitUsage /\ [][NextUsage]_vars

\* C17: a call of a scaling usage collector that statvfs answers returns true
\* with f_bsize as the block size and with the total, available and free
\* counts divided by f_bsize / f_frsize, by 4 for 4096 and 1024, and by 1 when
\* f_frsize is 0.
C17_FragmentScaling ==
    [][(answer'.fn = "_getDiskUsage" /\ answer'.usage.ok) =>
          LET u    == answer'.usage
              inf  == info'[cycle'.h]
              size == IF u.f_frsize > 0 THEN u.f_bsize \div u.f_frsize ELSE 1
          IN /\ cycle'.rv
             /\ inf.f_bsize = u.f_bsize
             /\ size # 0
             /\ inf.f_blocks = u.f_blocks \div size
             /\ inf.f_blocksfree = u.f_bavail \div size
             /\ inf.f_blocksfreetotal = u.f_bfree \div size
             /\ (u.f_bsize = 4096 /\ u.f_frsize = 1024) => inf.f_blocks = u.f_blocks \div 4]_vars

(* ---------------------------------------------------- C18: the READ line *)

\* the NFS collector read the statistics of the resolved export, whose section
\* holds the line READ: 100 0 0 2048 4096 0 0 5000
NfsRead ==
    /\ platform = "LINUX"
    /\ cycle.source = "NFSSTAT"
    /\ cycle.activity = "ok"
    /\ IS(info[cycle.h].object.device, NfsStatGood[1].name)

\* C18 as stated: the read counters are fed 100 operations, 2048 bytes and 5 ms.
C18_AsStated ==
    NfsRead =>
        /\ info[cycle.h].read.operations = 100
        /\ info[cycle.h].read.bytes = 2048
        /\ info[cycle.h].read.time = MicroToMilli(5000)

\* C18: the read counters are fed the first number as the operations, the
\* fifth number, the bytes received, as the bytes, and the eighth number
\* divided by 1000 as the time: 100 operations, 4096 bytes and 5.0 ms.
C18_ReadLine ==
    NfsRead =>
        /\ info[cycle.h].read.operations = 100
        /\ info[cycle.h].read.bytes = 4096
        /\ info[cycle.h].read.time = [ms |-> 5, us |-> 0]

\* C18 reached: the collector has read the section of a mounted export
C18_Reached ==
    /\ NfsRead
    /\ cycle.rv
    /\ info[cycle.h].object.getDiskActivity = "_getNfsDiskActivity"
    /\ info[cycle.h].read.operations = 100

(* --------------------------- C19: the statistics cache on its own *)

\* the implementations that cache the kernel's disk table for a second
CachingPlatforms == {"FREEBSD", "OPENBSD", "NETBSD", "NETBSD_MP"}

\* values of Time_milli(): around the threshold, and at both ends of the range
Clocks ==
    { U64_zero, U64(1), U64(999), U64(1000), U64(1001), U64(2000), U64(2001), U64(3001),
      U64(5000), U64_sub(U64_max, 1001), U64_sub(U64_max, 1000), U64_sub(U64_max, 999),
      U64_max }

GetStatisticsOf(p, st, now, stat) ==
    CASE p = "FREEBSD" -> FreeBsd_getStatistics(st, now, stat)
      [] p = "OPENBSD" -> OpenBsd_getStatistics(st, now, stat)
      [] p = "NETBSD" -> NetBsd_getStatistics(st, now, stat)
      [] p = "NETBSD_MP" -> NetBsdMp_getStatistics(st, now, stat)

InitClock ==
    /\ platform \in CachingPlatforms
    /\ run = [daemon |-> TRUE, once |-> FALSE]
    /\ target \in [{1} -> PlatformTargets(platform)]
    /\ mounts = BaseMounts
    /\ statistics = DiskTableZero
    /\ notify = FALSE
    /\ info = [h \in {1} |-> InfoZero]
    /\ resolved = [h \in {1} |-> "none"]
    /\ cycle = NoCycle
    /\ answer = NoAnswer
    /\ probe = NoProbe
    /\ process = Started

\* _getStatistics(now); the cached timestamp the call found is kept with the
\* answers it got
GetStatistics ==
    /\ \E now \in Clocks, stat \in {StatGood, StatMissing} :
         LET got == GetStatisticsOf(platform, statistics, now, stat) IN
         /\ statistics' = got.st
         /\ answer' = [fn |-> "_getStatistics", now |-> now, cached |-> statistics.timestamp,
                       readable |-> stat.devstat.exists]
         /\ cycle' = Observe(1, [rv |-> got.rv, outcome |-> "none", usage |-> "none",
                                 activity |-> IF got.rv THEN "ok" ELSE "fail",
                                 source |-> got.source])
    /\ UNCHANGED <<platform, run, target, mounts, info, notify, resolved, probe, process>>

NextClock == GetStatistics

SpecClock == InitClock /\ [][NextClock]_vars

\* now is more than 1000 after the cached timestamp, as numbers
LaterThanThreshold(now, cached) ==
    /\ U64_addCarry(cached, 1000).carry = 0
    /\ U64_less(U64_addCarry(cached, 1000).limbs, now)

\* now is more than 1000 before the cached timestamp, as numbers
EarlierThanThreshold(now, cached) ==
    /\ U64_subBorrow(cached, 1000).borrow = 0
    /\ U64_less(now, U64_subBorrow(cached, 1000).limbs)

\* C19: a call of _getStatistics whose now is more than 1000 ms after or more
\* than 1000 ms before the cached timestamp reads the kernel's table again,
\* for every cached timestamp, and keeps now as the new timestamp when the
\* table could be read.
C19_RefreshOnJump ==
    (/\ answer.fn = "_getStatistics"
     /\ \/ LaterThanThreshold(answer.now, answer.cached)
        \/ EarlierThanThreshold(answer.now, answer.cached)) =>
        /\ cycle.source = "devstat"
        /\ cycle.rv = answer.readable
        /\ answer.readable => statistics.timestamp = answer.now

\* C19 reached: the clock was set back by more than the threshold and the
\* table was read again
C19_Reached ==
    /\ answer.fn = "_getStatistics"
    /\ EarlierThanThreshold(answer.now, answer.cached)
    /\ answer.readable
    /\ cycle.source = "devstat"
    /\ statistics.timestamp = answer.now

(* ------------------------------------------- C20: the fail2ban check *)

\* what Socket_write can return: an error, or a number of bytes
WriteResults == {-1, 0, 17, 40}

\* what the peer can send: the pong frame, the frame with one byte changed,
\* the frame cut short, or nothing before the read fails
Responses ==
    { Received(pong) }
    \cup { Received([pong EXCEPT ![i] = (@ + d) % 256]) : i \in 1..Len(pong), d \in {1, 128, 255} }
    \cup { Received(SubSeq(pong, 1, n)) : n \in 0..(Len(pong) - 1) }
    \cup { ReadFails }

InitProbe ==
    /\ platform = "LINUX"
    /\ run = [daemon |-> TRUE, once |-> FALSE]
    /\ target \in [{1} -> PlatformTargets(platform)]
    /\ mounts = BaseMounts
    /\ statistics = Linux_constructor
    /\ notify = FALSE
    /\ info = [h \in {1} |-> InfoZero]
    /\ resolved = [h \in {1} |-> "none"]
    /\ cycle = NoCycle
    /\ answer = NoAnswer
    /\ probe = NoProbe
    /\ process = Started

\* check_fail2ban(socket) on a connected socket
CheckFail2ban ==
    /\ \E write \in WriteResults, read \in Responses :
         /\ probe' = check_fail2ban(write, read)
         /\ answer' = [fn |-> "check_fail2ban", write |-> write, read |-> read]
    /\ UNCHANGED <<platform, run, target, mounts, statistics, notify, info, resolved, cycle, process>>

NextProbe == CheckFail2ban

SpecProbe == InitProbe /\ [][NextProbe]_vars

\* C20: the check hands the 40 bytes of the ping frame to the write; a failed
\* write throws an I/O error and nothing is read; after a write that did not
\* fail, 40 bytes equal to the pong frame throw nothing, 40 bytes of which one
\* or more differ throw a protocol error, and fewer than 40 bytes throw an I/O
\* error.
C20_PingPong ==
    answer.fn = "check_fail2ban" =>
        /\ probe.written = ping
        /\ Len(probe.written) = 40
        /\ answer.write < 0 => (probe.thrown = "IOException" /\ probe.reads = 0)
        /\ (answer.write >= 0 /\ answer.read.n = 40 /\ answer.read.bytes = pong) =>
              probe.thrown = "none"
        /\ (/\ answer.write >= 0
            /\ answer.read.n = 40
            /\ \E i \in 1..40 : answer.read.bytes[i] # pong[i]) =>
              probe.thrown = "ProtocolException"
        /\ (answer.write >= 0 /\ answer.read.n < 40) => probe.thrown = "IOException"

\* C20 reached: only the last byte of the response differed from the pong frame
C20_Reached ==
    /\ answer.fn = "check_fail2ban"
    /\ answer.write = 40
    /\ answer.read.n = 40
    /\ SubSeq(answer.read.bytes, 1, 39) = SubSeq(pong, 1, 39)
    /\ answer.read.bytes[40] # pong[40]
    /\ probe.thrown = "ProtocolException"

(* --------------------------- C21: the error kind of a short response *)

\* C21: after a write that did not fail, a response of fewer than 40 bytes or
\* a failed read throws a protocol error, the kind thrown for 40 bytes that
\* differ from the pong frame.
C21_ShortIsProtocolError ==
    (/\ answer.fn = "check_fail2ban"
     /\ answer.write >= 0
     /\ answer.read.n < 40) =>
        probe.thrown = "ProtocolException"

(* ------------------------ C22: the lifetime of the notification descriptor *)

\* the process has not run its destructors yet
Alive == ~process.exited

\* _destructor: the number of descriptors it closes
Linux_destructor(st) == IF st.fd > -1 THEN 1 ELSE 0

\* process teardown: the destructor runs and nothing runs after it
Destructor ==
    /\ platform = "LINUX"
    /\ Alive
    /\ process' = [process EXCEPT !.descriptors = @ - Linux_destructor(statistics),
                                  !.exited = TRUE]
    /\ UNCHANGED <<platform, run, target, mounts, statistics, notify, info, resolved, cycle,
                   answer, probe>>

NextLifetime ==
    \/ Alive /\ \E h \in DOMAIN info : LinuxGetByMountpoint(h, ResolveAnswers, CollectAnswersShared)
    \/ Alive /\ \E h \in DOMAIN info : LinuxGetByDevice(h, ResolveAnswers, CollectAnswersShared)
    \/ Alive /\ \E e \in Mountable : Mount(e)
    \/ Alive /\ \E i \in 1..(Len(BaseMounts) + MaxMounts) : Unmount(i)
    \/ Destructor

\* a Linux process from its constructor to its destructor
SpecLifetime == Init /\ [][NextLifetime]_vars

\* the descriptors the running process must hold, given what _statistics says
DescriptorsHeld == IF statistics.fd # -1 THEN 1 ELSE 0

\* C22: the notification descriptor is opened only by a poll cycle of a daemon
\* that is not run once; an opened descriptor is never replaced and open is
\* never called again, so the process holds at most one; the destructor closes
\* it; a process that is not a daemon, or is run once, never opens one.
C22_OneDescriptor ==
    /\ [](/\ process.descriptors <= 1
          /\ process.opened <= 1
          /\ Alive => process.descriptors = DescriptorsHeld
          /\ process.exited => process.descriptors = 0
          /\ (~run.daemon \/ run.once) => (process.opened = 0 /\ statistics.fd = -1))
    /\ [][/\ process'.opened # process.opened =>
                (cycle'.seq # cycle.seq /\ run.daemon /\ ~run.once)
          /\ statistics.fd # -1 => statistics'.fd = statistics.fd]_vars

\* C22 reached: the descriptor was opened in one cycle, reported a change of the
\* mount table in a later one, and was closed when the process exited
C22_Reached ==
    /\ process.exited
    /\ process.opened = 1
    /\ process.descriptors = 0
    /\ statistics.fd # -1
    /\ statistics.generation >= 2

(* ------------------------------- C23: handles acquired in a poll cycle *)

\* C23: every stream, kernel handle, library session and mount-entry buffer
\* acquired inside a resolution or collection function is released before the
\* function returns, so after any sequence of poll cycles the process holds
\* no more handles than before the first one.
C23_HandlesReleased == process.handles = Started.handles

(* ------------------------- C24: kernel queries that size and then fetch *)

\* sizeof(struct io_sysctl), sizeof(struct diskstats): the size of one entry
SizeofEntry == 8

MaxDisks == 2

\* the disks the kernel can report, in the order of its table
DiskSets == { <<>>, <<S_sd0>>, <<S_sd0, S_sd>>, <<S_sd>> }

\* bytes RESIZE added and nothing has written yet
Junk == <<"?">>

\* static _statistics of the sysctl variants, the buffer as the names of its entries
DiskCacheZero == [timestamp |-> U64_zero, diskCount |-> 0, diskLength |-> 0, disk |-> <<>>]

\* RESIZE(_statistics.disk, len): the old entries are kept as far as they fit
RESIZE(disk, len) ==
    [i \in 1..(len \div SizeofEntry) |-> IF i <= Len(disk) THEN disk[i] ELSE Junk]

\* the kernel's answers to one call of _getStatistics: the result of the sizing
\* call and the disks present then, and the disks present at the fetch
Sysctl(sizeOk, sized, present) ==
    [sizeOk |-> sizeOk, sized |-> sized, present |-> present]

\* sysctl(mib, n, disk, &diskLength, NULL, 0): the entries are copied over the
\* start of the buffer and the length is set to what was copied; entries that
\* do not fit fail the call with ENOMEM after the buffer was filled
Sysctl_fetch(st, k) ==
    LET n == Len(k.present) IN
    IF n * SizeofEntry <= st.diskLength
    THEN [rv |-> 0,
          st |-> [st EXCEPT !.diskLength = n * SizeofEntry,
                            !.disk = [i \in 1..Len(@) |-> IF i <= n THEN k.present[i] ELSE @[i]]]]
    ELSE [rv |-> -1,
          st |-> [st EXCEPT !.disk = [i \in 1..Len(@) |->
                                           IF i * SizeofEntry <= st.diskLength
                                           THEN k.present[i] ELSE @[i]]]]

\* the result of _getStatistics: the cache, the return value and whether the
\* table was fetched
Fetched(st, rv, fetched) == [st |-> st, rv |-> rv, fetched |-> fetched]

\* NetBSD: the count is taken from the length of the sizing call, and only
\* when that length differs from the cached one
NetBsd_sysctlStatistics(st, now, k) ==
    IF ~StatisticsExpired(st, now) THEN Fetched(st, TRUE, FALSE)
    ELSE IF ~k.sizeOk THEN Fetched(st, FALSE, FALSE)
    ELSE LET len == Len(k.sized) * SizeofEntry
             st1 == IF st.diskLength # len
                    THEN [st EXCEPT !.diskCount = len \div SizeofEntry,
                                    !.diskLength = len,
                                    !.disk = RESIZE(@, len)]
                    ELSE st
             f   == Sysctl_fetch(st1, k)
         IN IF f.rv = -1 THEN Fetched(f.st, FALSE, FALSE)
            ELSE Fetched([f.st EXCEPT !.timestamp = now], TRUE, TRUE)

\* OpenBSD: the count is asked for with HW_DISKCOUNT in every refresh
OpenBsd_sysctlStatistics(st, now, k) ==
    IF ~StatisticsExpired(st, now) THEN Fetched(st, TRUE, FALSE)
    ELSE IF ~k.sizeOk THEN Fetched(st, FALSE, FALSE)
    ELSE LET st0    == [st EXCEPT !.diskCount = Len(k.sized)]
             length == st0.diskCount * SizeofEntry
             st1    == IF st0.diskLength # length
                       THEN [st0 EXCEPT !.diskLength = length, !.disk = RESIZE(@, length)]
                       ELSE st0
             f      == Sysctl_fetch(st1, k)
         IN IF f.rv = -1 THEN Fetched(f.st, FALSE, FALSE)
            ELSE Fetched([f.st EXCEPT !.timestamp = now], TRUE, TRUE)

\* the entries the loop of _getBlockDiskActivity looks at
Scanned(st) == [i \in 1..st.diskCount |-> st.disk[i]]

\* getfsstat(NULL, 0) sizes the buffer and getfsstat(mnt, ...) fills it with as
\* many entries as fit and returns their number, which the loop then uses
Getfsstat_scanned(sized, present) ==
    LET countfs == IF Len(present) <= sized THEN Len(present) ELSE sized
    IN SubSeq(present, 1, countfs)

SysctlPlatforms == {"NETBSD", "OPENBSD", "NETBSD_MP"}

SysctlStatisticsOf(p, st, now, k) ==
    IF p = "OPENBSD" THEN OpenBsd_sysctlStatistics(st, now, k)
    ELSE NetBsd_sysctlStatistics(st, now, k)

FetchClocks == {U64(2000), U64(2500), U64(4000), U64(6000)}

InitFetch ==
    /\ platform \in SysctlPlatforms
    /\ run = [daemon |-> TRUE, once |-> FALSE]
    /\ target \in [{1} -> {Target("Filesystem_getByMountpoint", S_slash_m)}]
    /\ mounts = BaseMounts
    /\ statistics = DiskCacheZero
    /\ notify = FALSE
    /\ info = [h \in {1} |-> InfoZero]
    /\ resolved = [h \in {1} |-> "none"]
    /\ cycle = NoCycle
    /\ answer = NoAnswer
    /\ probe = NoProbe
    /\ process = Started

\* _getStatistics(now) with the disks coming and going between its two calls
FetchStatistics ==
    /\ \E now \in FetchClocks, sizeOk \in BOOLEAN, sized \in DiskSets, present \in DiskSets :
         LET k   == Sysctl(sizeOk, sized, present)
             got == SysctlStatisticsOf(platform, statistics, now, k)
         IN /\ statistics' = got.st
            /\ answer' = [fn |-> "sysctl", fetched |-> got.fetched, sized |-> sized,
                          returned |-> present, scanned |-> Scanned(got.st)]
            /\ cycle' = Observe(1, [rv |-> got.rv, outcome |-> "none", usage |-> "none",
                                    activity |-> IF got.rv THEN "ok" ELSE "fail",
                                    source |-> "sysctl"])
    /\ UNCHANGED <<platform, run, target, mounts, info, notify, resolved, probe, process>>

\* the mount table read by _setDevice with entries coming and going between
\* the two calls of getfsstat or getvfsstat
FetchMounts ==
    /\ \E sized \in 0..MaxDisks, present \in DiskSets :
         /\ answer' = [fn |-> "getfsstat", fetched |-> TRUE, sized |-> sized,
                       returned |-> SubSeq(present, 1,
                                          IF Len(present) <= sized THEN Len(present) ELSE sized),
                       scanned |-> Getfsstat_scanned(sized, present)]
         /\ cycle' = Observe(1, [rv |-> TRUE, outcome |-> "none", usage |-> "none",
                                 activity |-> "none", source |-> "getfsstat"])
    /\ UNCHANGED <<platform, run, target, mounts, statistics, info, notify, resolved, probe,
                   process>>

NextFetch == FetchStatistics \/ FetchMounts

SpecFetch == InitFetch /\ [][NextFetch]_vars

\* C24: after a sizing call and a fetch call that succeeded, the entries the
\* scan looks at are the entries the fetch returned: their number is the
\* returned count, also when entries went away between the two calls.
C24_ScanIsFetched ==
    (answer.fn \in {"sysctl", "getfsstat"} /\ answer.fetched) =>
        answer.scanned = answer.returned

(* ------------------------------ C25: the section of the NFS statistics *)

S_nfsother == <<"h", ":", "/", "y">>

NfsMounts == Append(BaseMounts, Mntent(S_nfsdev, S_slash_m, S_nfs4))

\* the section of another NFS mount, complete
NfsOtherSection ==
    << NfsDeviceLine(S_nfsother), NfsTextLine,
       NfsOpLine("READ", <<900, 0, 0, 90, 9000, 0, 0, 9000>>),
       NfsOpLine("WRITE", <<800, 0, 0, 8000, 80, 0, 0, 8000>>) >>

\* the section of a filesystem that is not NFS: a header and no operation lines
NfsLocalSection == << NfsDeviceLine(S_dev_sda1) >>

\* the section of the resolved device with its READ and WRITE lines or without
NfsOwnSections ==
    { <<NfsDeviceLine(S_nfsdev), NfsTextLine>> \o ops :
        ops \in { <<>>,
                  << NfsOpLine("READ", <<100, 0, 0, 2048, 4096, 0, 0, 5000>>) >>,
                  << NfsOpLine("WRITE", <<7, 0, 0, 1024, 512, 0, 0, 3000>>) >>,
                  << NfsOpLine("READ", <<100, 0, 0, 2048, 4096, 0, 0, 5000>>),
                     NfsOpLine("WRITE", <<7, 0, 0, 1024, 512, 0, 0, 3000>>) >>,
                  << NfsOpLine("READ", <<101, 0, 0, 2049, 4097, 0, 0, 6000>>),
                     NfsOpLine("GETATTR", <<5, 0, 0, 10, 20, 0, 0, 100>>),
                     NfsOpLine("WRITE", <<8, 0, 0, 1025, 513, 0, 0, 4000>>),
                     NfsOpLine("READ", <<1, 0, 0, 1, 1, 0, 0, 1000>>) >> } }

\* /proc/self/mountstats with the section between the sections of other mounts
NfsFiles ==
    { File(pre \o own \o post) :
        pre \in {<<>>, NfsLocalSection, NfsOtherSection},
        own \in NfsOwnSections \cup {<<>>},
        post \in {<<>>, NfsLocalSection, NfsOtherSection} }
    \cup {NoFile}

InitNfs ==
    /\ platform = "LINUX"
    /\ run = [daemon |-> TRUE, once |-> FALSE]
    /\ target = [h \in {1} |-> Target("Filesystem_getByMountpoint", S_slash_m)]
    /\ mounts = NfsMounts
    /\ statistics = Linux_constructor
    /\ notify = FALSE
    /\ info = [h \in {1} |->
                 Linux_setDevice(InfoZero, Linux_constructor, S_slash_m, "_compareMountpoint",
                                 File(NfsMounts), LayoutNormal).inf]
    /\ resolved = [h \in {1} |-> "ok"]
    /\ cycle = NoCycle
    /\ answer = NoAnswer
    /\ probe = NoProbe
    /\ process = Started

\* inf->priv.filesystem.object.getDiskActivity(inf) of an NFS mount; the record
\* the call found is kept with the file it read
Linux_NfsCollect(h) ==
    /\ info[h].object.getDiskActivity = "_getNfsDiskActivity"
    /\ \E file \in NfsFiles :
         LET r == Linux_getNfsDiskActivity(info[h], [nfs |-> file]) IN
         /\ info' = [info EXCEPT ![h] = r.inf]
         /\ answer' = [fn |-> "_getNfsDiskActivity", nfs |-> file, before |-> info[h]]
         /\ cycle' = Observe(h, [rv |-> r.rv, outcome |-> "cached", usage |-> "none",
                                 activity |-> IF r.rv THEN "ok" ELSE "fail",
                                 source |-> r.source])
    /\ UNCHANGED <<platform, run, target, mounts, statistics, notify, resolved, probe, process>>

NextNfs == \E h \in DOMAIN info : Linux_NfsCollect(h)

SpecNfs == InitNfs /\ [][NextNfs]_vars

\* the section of the device called name: its header and the lines before the
\* next device header
SectionOf(name, lines) ==
    LET heads == {i \in 1..Len(lines) : lines[i].kind = "device" /\ lines[i].name = name}
        head  == CHOOSE i \in heads : \A j \in heads : i <= j
        nexts == {i \in (head + 1)..Len(lines) : lines[i].kind = "device"}
    IN IF heads = {} THEN <<>>
       ELSE IF nexts = {} THEN SubSeq(lines, head, Len(lines))
       ELSE SubSeq(lines, head, (CHOOSE i \in nexts : \A j \in nexts : i <= j) - 1)

\* C25: a call that could open the statistics file returns success and leaves
\* the record as a scan of the section of the resolved device alone leaves it:
\* READ lines up to the first WRITE line of the section and that WRITE line
\* are used, a counter whose line the section lacks keeps its value, and no
\* line of another device's section is used.
C25_OwnSectionOnly ==
    (answer.fn = "_getNfsDiskActivity" /\ answer.nfs.exists) =>
        /\ cycle.rv
        /\ info[1] = NfsScan(answer.before, answer.before.object.device,
                             SectionOf(answer.before.object.device, answer.nfs.content),
                             1, FALSE)

(* --------------------------------- C26: the variants that always rescan *)

RescanPlatforms == {"HPUX", "DARWIN", "NETBSD", "OPENBSD"}

\* the mount table holds an entry the comparison of the handle accepts, and the
\* first such entry can be classified: on the BSDs an ffs entry needs a device
\* name with a digit in it
ScanFinds(h) ==
    LET m == FirstCompared(mounts, Compare(target[h].fn), target[h].path) IN
    /\ m # 0
    /\ (platform \in {"NETBSD", "OPENBSD"} /\ IS(mounts[m].mnt_type, S_ffs)) =>
           \E i \in 1..Len(File_basename(mounts[m].mnt_fsname)) :
               isdigit(File_basename(mounts[m].mnt_fsname)[i])

\* C26 (as stated; refuted): on HP-UX, Darwin, NetBSD and OpenBSD, by handle,
\* after every poll call the mounted flag is true exactly when the scan of that
\* call found and classified the target, and a call whose scan does not find
\* the target returns failure with mounted false.
C26_RescanEveryCycle ==
    [][ (IsCycle /\ platform \in RescanPlatforms) =>
            LET h     == cycle'.h
                found == cycle'.outcome # "unreadable" /\ ScanFinds(h)
            IN /\ info'[h].object.mounted <=> found
               /\ ~found => ~cycle'.rv ]_vars

(* ------------------------------- C27: collectors pinned to the handle *)

\* the activity collectors _setDevice of a variant selects for a filesystem type
Selectable(p, type) ==
    CASE p = "LINUX" ->
             IF Str_startsWith(type, S_nfs) THEN {"_getNfsDiskActivity"}
             ELSE IF IS(type, S_cifs) THEN {"_getCifsDiskActivity"}
             ELSE {"_getBlockDiskActivity", "_getDummyDiskActivity"}
      [] p = "DARWIN" ->
             IF IS(type, S_hfs) THEN {"_getBlockDiskActivity"} ELSE {"_getDummyDiskActivity"}
      [] p \in {"OPENBSD", "NETBSD"} ->
             IF IS(type, S_ffs) THEN {"_getBlockDiskActivity"} ELSE {"_getDummyDiskActivity"}
      [] OTHER -> {"_getDiskActivity"}

\* the cycle did not change the resolution of its handle: the handle was not
\* stale, or the mount table could not be opened
NotReResolved == cycle'.outcome \in {"cached", "unreadable"}

\* C27: by handle, a handle marked mounted has both collectors set, the activity
\* collector being the one its variant selects for the type stored by the
\* resolution; a poll cycle calls a collector only on a handle marked mounted,
\* and the activity collector it calls is the one stored by the successful
\* resolution of this cycle or, when the cycle does not resolve, the one
\* already on the handle; a cycle that does not resolve leaves the collectors,
\* key, device and mountpoint of the handle as they were.
C27_CollectorsPinned ==
    /\ [](platform \in HandlePlatforms =>
             \A h \in DOMAIN info :
                 info[h].object.mounted =>
                     /\ info[h].object.getDiskUsage = "_getDiskUsage"
                     /\ info[h].object.getDiskActivity
                            \in Selectable(platform, info[h].object.type))
    /\ [][ (IsCycle /\ platform \in HandlePlatforms) =>
              LET h == cycle'.h IN
              /\ ~info'[h].object.mounted =>
                     (cycle'.usage = "none" /\ cycle'.activity = "none"
                      /\ cycle'.collector = "none")
              /\ cycle'.activity # "none" =>
                     /\ cycle'.collector # "none"
                     /\ cycle'.outcome \in {"ok", "cached", "unreadable"}
                     /\ cycle'.collector = IF NotReResolved
                                           THEN info[h].object.getDiskActivity
                                           ELSE info'[h].object.getDiskActivity
              /\ NotReResolved =>
                     /\ info'[h].object.getDiskActivity = info[h].object.getDiskActivity
                     /\ info'[h].object.getDiskUsage = info[h].object.getDiskUsage
                     /\ info'[h].object.key = info[h].object.key
                     /\ info'[h].object.device = info[h].object.device
                     /\ info'[h].object.mountpoint = info[h].object.mountpoint ]_vars

\* C27 reached: a Linux cycle that did not resolve called the block collector
\* an earlier resolution had stored, and succeeded
C27_Reached ==
    /\ platform = "LINUX"
    /\ cycle.outcome = "cached"
    /\ cycle.collector = "_getBlockDiskActivity"
    /\ info[cycle.h].object.getDiskActivity = "_getBlockDiskActivity"
    /\ cycle.rv

(* ----------------------- C28: a target mounted after a failed resolution *)

\* the mount table holds an entry whose own strings match the target of h
Listed(h) ==
    \E i \in 1..Len(mounts) :
        IF target[h].fn = "Filesystem_getByMountpoint"
        THEN IS(target[h].path, mounts[i].mnt_dir) /\ ~IS(mounts[i].mnt_fsname, S_rootfs)
        ELSE IS(target[h].path, mounts[i].mnt_fsname)

\* the step is a cycle whose poll call is made and succeeds: the descriptor is
\* open and a pending change, if there was one, has been taken
PollSucceeds == statistics'.fd # -1 /\ (notify => ~notify')

\* the last resolution of h did not find the target, which is therefore not
\* marked mounted
NotFoundBefore(h) == resolved[h] = "notfound" /\ ~info[h].object.mounted

\* C28 (as stated; refuted): in a Linux daemon, a handle whose last resolution
\* did not find the target in the mount table is resolved and marked mounted by
\* the first cycle that starts with the target in the table and whose poll call
\* succeeds; and while the process-wide generation is the one the handle
\* stored, every cycle of the handle returns failure without reading the mount
\* table or running a collector, and leaves the record as it was.
C28_ResolvedAfterMount ==
    [][ (IsCycle /\ run.daemon /\ ~run.once /\ NotFoundBefore(cycle'.h)) =>
            LET h == cycle'.h IN
            /\ (Listed(h) /\ PollSucceeds) =>
                   (cycle'.outcome = "ok" /\ info'[h].object.mounted)
            /\ statistics'.generation = info[h].object.generation =>
                   /\ ~cycle'.rv
                   /\ cycle'.outcome = "cached"
                   /\ cycle'.usage = "none"
                   /\ cycle'.activity = "none"
                   /\ info'[h] = info[h] ]_vars

(* ------------------------------------- C29: the divisor of the counts *)

\* C29 (as stated; refuted): in a call of a scaling usage collector that
\* statvfs answers, the size factor the block counts are divided by is not
\* zero, whatever f_bsize and f_frsize are, and the call is not ended by the
\* trap of a division by zero.
C29_DivisorNeverZero ==
    (answer.fn = "_getDiskUsage" /\ answer.usage.ok) =>
        /\ SizeFactor(answer.usage) # 0
        /\ cycle.source # "SIGFPE"

(* ------------------------------------------ C30: the first generation *)

\* h has not been polled yet: the record is as Info_T is allocated
Fresh(h) == resolved[h] = "none" /\ info[h] = InfoZero

\* C30: on Linux the process-wide generation is at least 1 from the
\* constructor on; the first poll cycle of a handle still zeroed (generation 0,
\* not mounted) calls _setDevice, in every run mode; a cycle whose _setDevice
\* could open the mount table leaves the generation of the handle equal to the
\* process-wide generation, and one that could not leaves it as it was.
C30_FirstGeneration ==
    /\ [](platform = "LINUX" => statistics.generation >= 1)
    /\ [][ (IsCycle /\ platform = "LINUX") =>
              LET h == cycle'.h IN
              /\ Fresh(h) =>
                     /\ info[h].object.generation = 0
                     /\ ~info[h].object.mounted
                     /\ cycle'.outcome # "cached"
              /\ cycle'.outcome \in {"ok", "notfound", "error"} =>
                     info'[h].object.generation = statistics'.generation
              /\ cycle'.outcome = "unreadable" =>
                     info'[h].object.generation = info[h].object.generation ]_vars

\* C30 reached: a daemon read the mount table after a change, did not find the
\* target, and stored the second generation on the handle
C30_Reached ==
    /\ platform = "LINUX"
    /\ run.daemon /\ ~run.once
    /\ cycle.outcome = "notfound"
    /\ statistics.generation >= 2
    /\ info[cycle.h].object.generation = statistics.generation
    /\ ~info[cycle.h].object.mounted

====
